---- MODULE Spec2Model ----
(***************************************************************************)
(* The inventory allocation engine of app/inventory_crud.py and the routes *)
(* that call it, over a store with read-committed isolation: a statement   *)
(* reads the rows committed so far, a session's writes stay pending in the *)
(* session until its commit, and a commit writes them in one step or fails *)
(* with a storage error.  Every API request runs on a session of its own   *)
(* (app/database.py get_session), closed when the request ends.            *)
(* Next to the engine run the snapshot job of app/snapshot_job.py, the     *)
(* dashboard summary of app/main.py and the cached user list of            *)
(* app/ms_graph.py, which read the device directory and never the engine's *)
(* tables.                                                                 *)
(***************************************************************************)
EXTENDS Integers, Sequences, FiniteSets, TLC

VARIABLES
  pools,        \* LicensePool rows:      id -> [sku, total, allocated]
  items,        \* InventoryItem rows:    id -> [sku, quantity, version, updated_at]
  laptops,      \* Laptop rows:           id -> [item_id, status, assigned_to_upn, device_graph_id]
  assignments,  \* Assignment rows:       id -> [item_id, license_id, user_upn, device_graph_id, status]
  history,      \* InventoryHistory rows, in insertion order
  pc,           \* per session: the statement its request is about to run
  call,         \* per session: the operation and arguments of its request
  attempt,      \* per session: allocate_license's loop variable
  pending,      \* per session: the objects loaded and the writes not yet committed
  result,       \* per session: how its last request ended
  snap,         \* per session: the committed rows as they were when its request began
  added,        \* per session: the rows session.add put in the session, not yet committed
                \* or discarded, when a call on it ended
  snapshots,    \* DeviceSnapshot rows, in insertion order
  job,          \* per run of run_snapshot_once: its position and the pages fetched
  users,        \* fetch_users_cached: its memo, its attributes and its last call
  now,          \* time.time(), in units of the ttl's resolution
  summary       \* the last response of dashboard_summary

db == <<pools, items, laptops, assignments, history>>
\* what the snapshot job, the dashboard and the user list keep: no statement
\* of the engine or of its routes reads or writes it
bridge == <<snapshots, job, users, now, summary>>
\* what a session keeps of its request
requests == <<pc, call, attempt, pending, result, snap, added>>
vars == <<pools, items, laptops, assignments, history, pc, call, attempt, pending, result,
          snap, added, snapshots, job, users, now, summary>>

----------------------------------------------------------------------------
(* Bounds of the model and constants of the program *)

MaxTotal == 2
MaxHistory == 4
MaxItems == 2
MaxBatch == 2
MaxSnapshots == 2
MaxTime == 4
MaxAdded == 2
\* snapshot_job.py line 21
SampleSize == 5
MaxRetries == 3

Sessions == {"s1", "s2"}
None == "None"
NoId == 0
Skus == {"E3", "E5"}
\* request bodies of the allocate route and of the assign route
LicenseBodies == {[user_upn |-> "userA", device_graph_id |-> None]}
Bodies == {[user_upn |-> "userX", device_graph_id |-> None],
           [user_upn |-> "userY", device_graph_id |-> "dev1"]}
\* create_license_pool payloads; allocated is 0 when the payload leaves it
\* out, and no value of it is rejected
PoolPayloads == {[sku |-> k, total |-> t, allocated |-> a] :
                   k \in Skus, t \in 0..MaxTotal, a \in {-1, 0, 1}}
ItemPayloads == {[sku |-> "LAP1"]}
\* create_inventory_item payloads with and without a quantity; no value of it
\* is rejected
AnyItemPayloads == ItemPayloads \cup {[sku |-> "LAP1", quantity |-> -1]}
\* update_inventory_item patches: a known attribute with a key that is no
\* attribute, and the version
ItemPatches == {[quantity |-> -1, actor |-> "admin"], [version |-> 0]}
\* and a patch of the primary key
AnyItemPatches == ItemPatches \cup {[id |-> 2]}
\* a record of a bulk_import batch that is no JSON object: InventoryItem(**rec)
\* raises on it
Malformed == [malformed |-> TRUE]
\* bulk_import batches of at most MaxBatch records
Batches ==
  UNION {[1..n -> AnyItemPayloads \cup {Malformed}] : n \in 0..MaxBatch}
\* the runs of run_snapshot_once: the scheduler's and the one create_snapshot
\* schedules
Runs == {"scheduler", "create_snapshot"}
NoJob == [pc |-> "idle"]
\* the user lists the directory may hold
UserLists == {<<"ann">>, <<"ann", "bob">>}
\* fetch_users_cached before its first call: nothing memoized by lru_cache, no
\* _cached_at attribute yet (line 67 sets it to 0 with an empty result)
NoUsers == [directory |-> <<"ann">>, memo |-> {}, cached_at |-> 0, cached_result |-> <<>>,
            last |-> [called |-> FALSE]]
NoSummary == [total |-> 0]
\* the laptop part of a create_device_atomic body; item_id NoId when left out
LaptopPayloads == {[item_id |-> i, status |-> st, assigned_to_upn |-> None,
                    device_graph_id |-> None] :
                     i \in {NoId, 1}, st \in {"in_stock", "in_use"}}
LaptopPatches == {[status |-> "in_stock"], [status |-> "in_use"], [actor |-> "admin"]}

----------------------------------------------------------------------------
(* Tables *)

Max(S) == CHOOSE x \in S : \A y \in S : y <= x
NextId(table) == IF DOMAIN table = {} THEN 1 ELSE Max(DOMAIN table) + 1
Insert(table, row) == table @@ (NextId(table) :> row)
EmptyTable == <<>>

LicensePool(payload) ==
  [sku |-> payload.sku, total |-> payload.total, allocated |-> payload.allocated]
AssignmentOfBoth(item_id, license_id, body) ==
  [item_id |-> Max({item_id, license_id}), license_id |-> Max({item_id, license_id}),
   user_upn |-> body.user_upn, device_graph_id |-> body.device_graph_id,
   status |-> "assigned"]
Assignment(item_id, license_id, body) ==
  [item_id |-> item_id, license_id |-> license_id, user_upn |-> body.user_upn,
   device_graph_id |-> body.device_graph_id, status |-> "assigned"]
\* datetime.utcnow(), on the clock of the store: the history rows committed so far
Now == Len(history)
\* a payload's value for a key, or the field's default
Field(payload, key, default) == IF key \in DOMAIN payload THEN payload[key] ELSE default
InventoryItem(payload) ==
  [sku |-> payload.sku, quantity |-> Field(payload, "quantity", 0),
   version |-> Field(payload, "version", 1), updated_at |-> Now]
Laptop(payload) ==
  [item_id |-> payload.item_id, status |-> payload.status,
   assigned_to_upn |-> payload.assigned_to_upn,
   device_graph_id |-> payload.device_graph_id]
InventoryHistory(action, details) == [action |-> action, details |-> details]

Database == [pools |-> pools, items |-> items, laptops |-> laptops,
             assignments |-> assignments, history |-> history]
NoSnap == [pools |-> EmptyTable, items |-> EmptyTable, laptops |-> EmptyTable,
           assignments |-> EmptyTable, history |-> <<>>]

----------------------------------------------------------------------------
(* Sessions and requests *)

NoCall == [op |-> "none"]
NoPending == [kind |-> "none"]
NoResult == [status |-> "none", detail |-> None, id |-> NoId]

Idle(s) == pc[s] = "idle"

\* A request arrives: get_session opens a new session for it.
Begin(s, c, first) ==
  /\ Idle(s)
  /\ Len(history) < MaxHistory
  /\ pc' = [pc EXCEPT ![s] = first]
  /\ call' = [call EXCEPT ![s] = c]
  /\ snap' = [snap EXCEPT ![s] = Database]
  /\ UNCHANGED <<db, attempt, pending, result, added, bridge>>

\* The operation raises: nothing more is committed, and the route turns the
\* exception into an error response.
RaiseLeaving(s, detail, rows) ==
  /\ pc' = [pc EXCEPT ![s] = "done"]
  /\ pending' = [pending EXCEPT ![s] = NoPending]
  /\ result' = [result EXCEPT ![s] = [status |-> "error", detail |-> detail, id |-> NoId]]
  /\ added' = [added EXCEPT ![s] = rows]
  /\ UNCHANGED <<call, attempt, snap, bridge>>
Raise(s, detail) == RaiseLeaving(s, detail, added[s])

\* The operation returns the row `id`: its last commit has written everything
\* the session held.
Return(s, id) ==
  /\ pc' = [pc EXCEPT ![s] = "done"]
  /\ pending' = [pending EXCEPT ![s] = NoPending]
  /\ result' = [result EXCEPT ![s] = [status |-> "ok", detail |-> None, id |-> id]]
  /\ added' = [added EXCEPT ![s] = <<>>]
  /\ UNCHANGED <<call, attempt, snap, bridge>>

Done(s) == pc[s] = "done"

\* The response is sent and get_session closes the request's session.
Respond(s) ==
  /\ Done(s)
  /\ pc' = [pc EXCEPT ![s] = "idle"]
  /\ call' = [call EXCEPT ![s] = NoCall]
  /\ attempt' = [attempt EXCEPT ![s] = 0]
  /\ pending' = [pending EXCEPT ![s] = NoPending]
  /\ result' = [result EXCEPT ![s] = NoResult]
  /\ snap' = [snap EXCEPT ![s] = NoSnap]
  /\ added' = [added EXCEPT ![s] = <<>>]
  /\ UNCHANGED <<db, bridge>>

\* The caller takes the result and keeps the session for its next call: the
\* engine's functions run on the session they are given.
KeepSession(s) ==
  /\ Done(s)
  /\ Len(added[s]) < MaxAdded
  /\ pc' = [pc EXCEPT ![s] = "idle"]
  /\ call' = [call EXCEPT ![s] = NoCall]
  /\ attempt' = [attempt EXCEPT ![s] = 0]
  /\ pending' = [pending EXCEPT ![s] = NoPending]
  /\ result' = [result EXCEPT ![s] = NoResult]
  /\ snap' = [snap EXCEPT ![s] = NoSnap]
  /\ UNCHANGED <<db, added, bridge>>

Goto(s, label) == pc' = [pc EXCEPT ![s] = label] /\ UNCHANGED <<added, bridge>>

\* session.commit() writes the rows the session holds, in the order they
\* were added
RECURSIVE Flushed(_, _)
Flushed(table, rows) ==
  IF rows = <<>> THEN table ELSE Flushed(Insert(table, Head(rows)), Tail(rows))

----------------------------------------------------------------------------
(* create_license_pool *)

CreateLicensePoolBeginWith(s, payloads) ==
  \E payload \in payloads :
    Begin(s, [op |-> "create_license_pool", payload |-> payload], "pool_commit")
CreateLicensePoolBegin(s) == CreateLicensePoolBeginWith(s, PoolPayloads)

SkuNeverTaken(sku) == FALSE
\* the unique index on LicensePool.sku finds the SKU in the table
SkuTaken(sku) == \E id \in DOMAIN pools : pools[id].sku = sku

\* lines 41-44: the pool is committed on its own
CreateLicensePoolCommit(s) ==
  /\ pc[s] = "pool_commit"
  /\ ~SkuTaken(call[s].payload.sku)
  /\ pools' = Insert(pools, LicensePool(call[s].payload))
  /\ pending' = [pending EXCEPT ![s] = [kind |-> "pool", id |-> NextId(pools)]]
  /\ Goto(s, "pool_history")
  /\ UNCHANGED <<items, laptops, assignments, history, call, attempt, result, snap>>

\* line 43: the unique index on sku rejects the insert
CreateLicensePoolDuplicate(s) ==
  /\ pc[s] = "pool_commit"
  /\ SkuTaken(call[s].payload.sku)
  /\ Raise(s, "IntegrityError")
  /\ UNCHANGED db

\* lines 45-47: the history row is committed after it
CreateLicensePoolHistory(s) ==
  /\ pc[s] = "pool_history"
  /\ history' = Append(history, InventoryHistory("create_licensepool",
                  [id |-> pending[s].id] @@ pools[pending[s].id]))
  /\ Return(s, pending[s].id)
  /\ UNCHANGED <<pools, items, laptops, assignments>>

\* line 46: the second commit fails
CreateLicensePoolHistoryError(s) ==
  /\ pc[s] = "pool_history"
  /\ Raise(s, "SQLAlchemyError")
  /\ UNCHANGED db

----------------------------------------------------------------------------
(* allocate_license *)

AllocateLicenseBegin(s) ==
  \E license_id \in 1..NextId(pools), body \in LicenseBodies :
    Begin(s, [op |-> "allocate_license", license_id |-> license_id, body |-> body],
          "alloc_get")

AvailableOffByOne(lp) == lp.total - lp.allocated + 1
\* line 59
Available(lp) == lp.total - lp.allocated

ExhaustedWhenNegative(lp) == Available(lp) < 0
\* line 60
Exhausted(lp) == Available(lp) <= 0

NotIncremented(lp) == lp.allocated
\* line 62
Incremented(lp) == lp.allocated + 1

\* lines 56-68: read the pool, check it, stage the increment and the two inserts
AllocateLicenseGet(s) ==
  /\ pc[s] = "alloc_get"
  /\ LET license_id == call[s].license_id IN
       IF license_id \notin DOMAIN pools
         THEN Raise(s, "License pool not found")
       ELSE IF Exhausted(pools[license_id])
         THEN Raise(s, "No available license")
       ELSE /\ pending' = [pending EXCEPT ![s] =
                  [kind |-> "allocate", allocated |-> Incremented(pools[license_id])]]
            /\ Goto(s, "alloc_commit")
            /\ UNCHANGED <<call, attempt, result, snap>>
  /\ UNCHANGED db

\* line 69: the commit writes the staged rows
AllocateLicenseCommit(s) ==
  /\ pc[s] = "alloc_commit"
  /\ LET license_id == call[s].license_id IN
       /\ pools' = [pools EXCEPT ![license_id].allocated = pending[s].allocated]
       /\ assignments' = Insert(assignments, Assignment(NoId, license_id, call[s].body))
       /\ history' = Append(history, InventoryHistory("allocate_license",
                        [license_id |-> license_id] @@ call[s].body))
       /\ pending' = [pending EXCEPT ![s] = [kind |-> "allocated", id |-> NextId(assignments)]]
  /\ Goto(s, "alloc_refresh")
  /\ UNCHANGED <<items, laptops, call, attempt, result, snap>>

RetryOnceMore(n) == n < MaxRetries
\* line 75
Retry(n) == n < MaxRetries - 1

\* lines 73-78: rollback, then the next attempt, or the error once attempts are used up
AllocateLicenseExcept(s) ==
  IF Retry(attempt[s])
    THEN /\ attempt' = [attempt EXCEPT ![s] = attempt[s] + 1]
         /\ pending' = [pending EXCEPT ![s] = NoPending]
         /\ Goto(s, "alloc_get")
         /\ UNCHANGED <<call, result, snap>>
    ELSE /\ Raise(s, "SQLAlchemyError")

\* line 69 raising SQLAlchemyError: a storage-level write conflict
AllocateLicenseConflict(s) ==
  /\ pc[s] = "alloc_commit"
  /\ AllocateLicenseExcept(s)
  /\ UNCHANGED db

\* lines 70-72
AllocateLicenseRefresh(s) ==
  /\ pc[s] = "alloc_refresh"
  /\ Return(s, pending[s].id)
  /\ UNCHANGED db

\* lines 70-71 raising SQLAlchemyError after the commit went through
AllocateLicenseRefreshError(s) ==
  /\ pc[s] = "alloc_refresh"
  /\ AllocateLicenseExcept(s)
  /\ UNCHANGED db

----------------------------------------------------------------------------
(* return_assignment and return_assignment_by_item *)

ReturnAssignmentBegin(s) ==
  \E assignment_id \in 1..NextId(assignments) :
    Begin(s, [op |-> "return_assignment", assignment_id |-> assignment_id], "return_get")

ReturnAssignmentByItemBegin(s) ==
  \E item_id \in 1..NextId(items) :
    Begin(s, [op |-> "return_assignment_by_item", item_id |-> item_id,
              assignment_id |-> NoId], "by_item_find")

AssignmentsOf(item_id) ==
  {id \in DOMAIN assignments : assignments[id].item_id = item_id}
\* line 178
ActiveAssignments(item_id) ==
  {id \in DOMAIN assignments :
     assignments[id].item_id = item_id /\ assignments[id].status = "assigned"}

\* lines 178-182: the statement has no ORDER BY, so first() is any matching row
ReturnAssignmentByItemFind(s) ==
  /\ pc[s] = "by_item_find"
  /\ IF ActiveAssignments(call[s].item_id) = {}
       THEN Raise(s, "No active assignment for item")
       ELSE \E id \in ActiveAssignments(call[s].item_id) :
              /\ call' = [call EXCEPT ![s].assignment_id = id]
              /\ Goto(s, "return_get")
              /\ UNCHANGED <<attempt, pending, result, snap>>
  /\ UNCHANGED db

AnyStatus(a) == TRUE
\* line 140
Assigned(a) == a.status = "assigned"

\* lines 137-141
ReturnAssignmentGet(s) ==
  /\ pc[s] = "return_get"
  /\ LET assignment_id == call[s].assignment_id IN
       IF assignment_id \notin DOMAIN assignments
         THEN Raise(s, "Assignment not found")
       ELSE IF ~Assigned(assignments[assignment_id])
         THEN Raise(s, "Assignment not in assigned state")
       ELSE /\ pending' = [pending EXCEPT ![s] =
                  [kind |-> "return", a |-> assignments[assignment_id]]]
            /\ Goto(s, "return_load")
            /\ UNCHANGED <<call, attempt, result, snap>>
  /\ UNCHANGED db

LaptopsOf(item_id) == {id \in DOMAIN laptops : laptops[id].item_id = item_id}

\* line 149: max(0, n)
Floor0(n) == IF n > 0 THEN n ELSE 0

ReturnPathAlwaysLicense(a) == "license"
\* lines 144, 153, 163: the reference that is set picks the branch
ReturnPath(a) ==
  IF a.license_id # NoId THEN "license"
  ELSE IF a.item_id # NoId THEN "item"
  ELSE "none"

\* lines 143-166: load the pool or the laptop the assignment refers to and
\* stage the changes
ReturnAssignmentLoad(s) ==
  /\ pc[s] = "return_load"
  /\ LET a == pending[s].a IN
       \/ /\ ReturnPath(a) = "license"
          /\ pending' = [pending EXCEPT ![s] =
               IF a.license_id \in DOMAIN pools
                 THEN [kind |-> "return_license", license_id |-> a.license_id,
                       allocated |-> Floor0(pools[a.license_id].allocated - 1)]
                 ELSE [kind |-> "return_only"]]
       \/ /\ ReturnPath(a) = "item"
          /\ \/ /\ LaptopsOf(a.item_id) = {}
                /\ pending' = [pending EXCEPT ![s] = [kind |-> "return_only"]]
             \/ \E laptop_id \in LaptopsOf(a.item_id) :
                  pending' = [pending EXCEPT ![s] =
                    [kind |-> "return_item", laptop_id |-> laptop_id]]
       \/ /\ ReturnPath(a) = "none"
          /\ pending' = [pending EXCEPT ![s] = [kind |-> "return_only"]]
  /\ Goto(s, "return_commit")
  /\ UNCHANGED <<db, call, attempt, result, snap>>

ReturnedWithoutUser(a) == [a EXCEPT !.status = "returned", !.user_upn = None]
\* lines 146, 155, 165 (and 87): the status is the one attribute written
Returned(a) == [a EXCEPT !.status = "returned"]

CheckedInKeepsUser(laptop) == [laptop EXCEPT !.status = "in_stock"]
\* lines 158-160
CheckedIn(laptop) ==
  [laptop EXCEPT !.status = "in_stock", !.assigned_to_upn = None,
                 !.device_graph_id = None]

\* lines 168-171: one commit for the assignment, the pool or laptop, and the history row
ReturnAssignmentCommit(s) ==
  /\ pc[s] = "return_commit"
  /\ pending[s].kind = "return_item" => pending[s].laptop_id \in DOMAIN laptops
  /\ assignments' = [assignments EXCEPT ![call[s].assignment_id] = Returned(@)]
  /\ pools' = IF pending[s].kind = "return_license"
                THEN [pools EXCEPT ![pending[s].license_id].allocated = pending[s].allocated]
                ELSE pools
  /\ laptops' = IF pending[s].kind = "return_item"
                  THEN [laptops EXCEPT ![pending[s].laptop_id] = CheckedIn(@)]
                  ELSE laptops
  /\ history' = Append(history, InventoryHistory("return_assignment",
                         [assignment_id |-> call[s].assignment_id]))
  /\ Return(s, call[s].assignment_id)
  /\ UNCHANGED items

\* line 169 raising SQLAlchemyError
ReturnAssignmentCommitError(s) ==
  /\ pc[s] = "return_commit"
  /\ Raise(s, "SQLAlchemyError")
  /\ UNCHANGED db

----------------------------------------------------------------------------
(* return_license *)

ReturnLicenseBegin(s) ==
  \E assignment_id \in 1..NextId(assignments) :
    Begin(s, [op |-> "return_license", assignment_id |-> assignment_id], "rl_get")

\* lines 81-85
ReturnLicenseGet(s) ==
  /\ pc[s] = "rl_get"
  /\ LET assignment_id == call[s].assignment_id IN
       IF assignment_id \notin DOMAIN assignments
         THEN Raise(s, "Assignment not found")
       ELSE IF assignments[assignment_id].status # "assigned"
         THEN Raise(s, "Assignment not in assigned state")
       ELSE /\ pending' = [pending EXCEPT ![s] =
                  [kind |-> "return", a |-> assignments[assignment_id]]]
            /\ Goto(s, "rl_load")
            /\ UNCHANGED <<call, attempt, result, snap>>
  /\ UNCHANGED db

\* lines 86-92: only a pool is looked for; a laptop is not
ReturnLicenseLoad(s) ==
  /\ pc[s] = "rl_load"
  /\ LET a == pending[s].a IN
       pending' = [pending EXCEPT ![s] =
         IF a.license_id # NoId /\ a.license_id \in DOMAIN pools
           THEN [kind |-> "return_license", license_id |-> a.license_id,
                 allocated |-> Floor0(pools[a.license_id].allocated - 1)]
           ELSE [kind |-> "return_only"]]
  /\ Goto(s, "rl_commit")
  /\ UNCHANGED <<db, call, attempt, result, snap>>

\* lines 92-97: the history row carries the action 'return_license'
ReturnLicenseCommit(s) ==
  /\ pc[s] = "rl_commit"
  /\ assignments' = [assignments EXCEPT ![call[s].assignment_id] = Returned(@)]
  /\ pools' = IF pending[s].kind = "return_license"
                THEN [pools EXCEPT ![pending[s].license_id].allocated = pending[s].allocated]
                ELSE pools
  /\ history' = Append(history, InventoryHistory("return_license",
                         [assignment_id |-> call[s].assignment_id]))
  /\ Return(s, call[s].assignment_id)
  /\ UNCHANGED <<items, laptops>>

\* line 93 raising SQLAlchemyError
ReturnLicenseCommitError(s) ==
  /\ pc[s] = "rl_commit"
  /\ Raise(s, "SQLAlchemyError")
  /\ UNCHANGED db

----------------------------------------------------------------------------
(* create_inventory_item and create_device_atomic *)

CreateInventoryItemBeginWith(s, payloads) ==
  \E payload \in payloads :
    /\ Cardinality(DOMAIN items) < MaxItems
    /\ Begin(s, [op |-> "create_inventory_item", payload |-> payload], "item_commit")
CreateInventoryItemBegin(s) == CreateInventoryItemBeginWith(s, ItemPayloads)

\* lines 9-12
CreateInventoryItemCommit(s) ==
  /\ pc[s] = "item_commit"
  /\ items' = Insert(items, InventoryItem(call[s].payload))
  /\ pending' = [pending EXCEPT ![s] = [kind |-> "item", id |-> NextId(items),
                                          item |-> InventoryItem(call[s].payload)]]
  /\ Goto(s, "item_history")
  /\ UNCHANGED <<pools, laptops, assignments, history, call, attempt, result, snap>>

\* lines 13-15: the details are the item as refreshed at line 12
CreateInventoryItemHistory(s) ==
  /\ pc[s] = "item_history"
  /\ history' = Append(history, InventoryHistory("create_item",
                  [id |-> pending[s].id] @@ pending[s].item))
  /\ Return(s, pending[s].id)
  /\ UNCHANGED <<pools, items, laptops, assignments>>

\* line 14 raising SQLAlchemyError
CreateInventoryItemHistoryError(s) ==
  /\ pc[s] = "item_history"
  /\ Raise(s, "SQLAlchemyError")
  /\ UNCHANGED db

CreateDeviceAtomicBeginWith(s, laptop_payloads) ==
  \E item_payload \in ItemPayloads, laptop_payload \in laptop_payloads :
    /\ Cardinality(DOMAIN items) < MaxItems
    /\ Begin(s, [op |-> "create_device_atomic", item_payload |-> item_payload,
              laptop_payload |-> laptop_payload], "device_commit")
CreateDeviceAtomicBegin(s) == CreateDeviceAtomicBeginWith(s, LaptopPayloads)

\* lines 194-196: the laptop payload takes the new item's id unless it brings one
BackFill(laptop_payload, item_id) ==
  IF laptop_payload.item_id = NoId
    THEN [laptop_payload EXCEPT !.item_id = item_id]
    ELSE laptop_payload

\* lines 190-200: item, laptop and history row in one commit
CreateDeviceAtomicCommit(s) ==
  /\ pc[s] = "device_commit"
  /\ LET laptop_payload == BackFill(call[s].laptop_payload, NextId(items)) IN
       /\ items' = Insert(items, InventoryItem(call[s].item_payload))
       /\ laptops' = Insert(laptops, Laptop(laptop_payload))
       /\ history' = Append(history, InventoryHistory("create_device",
                       [item |-> call[s].item_payload, laptop |-> laptop_payload]))
  /\ pending' = [pending EXCEPT ![s] =
                   [kind |-> "device", id |-> NextId(items), laptop_id |-> NextId(laptops)]]
  /\ Goto(s, "device_refresh")
  /\ UNCHANGED <<pools, assignments, call, attempt, result, snap>>

\* lines 190-200 raising, then 204-206: a failure up to the commit rolls the
\* flushed item back with everything else
CreateDeviceAtomicError(s) ==
  /\ pc[s] = "device_commit"
  /\ Raise(s, "Exception")
  /\ UNCHANGED db

\* lines 201-203
CreateDeviceAtomicRefresh(s) ==
  /\ pc[s] = "device_refresh"
  /\ Return(s, pending[s].id)
  /\ UNCHANGED db

\* lines 201-202 raising, then 204-206: the rollback after the commit undoes
\* nothing and the exception goes to the caller
CreateDeviceAtomicRefreshError(s) ==
  /\ pc[s] = "device_refresh"
  /\ Raise(s, "Exception")
  /\ UNCHANGED db

----------------------------------------------------------------------------
(* update_inventory_item and delete_inventory_item *)

UpdateInventoryItemBeginWith(s, patches) ==
  \E item_id \in 1..NextId(items), patch \in patches :
    Begin(s, [op |-> "update_inventory_item", item_id |-> item_id, patch |-> patch],
          "update_get")
UpdateInventoryItemBegin(s) == UpdateInventoryItemBeginWith(s, ItemPatches)

NoBump(version) == version
\* line 25: (item.version or 1) + 1
Bump(version) == (IF version = 0 THEN 1 ELSE version) + 1

\* lines 21-25: every patch key that is an attribute is set, version included,
\* then updated_at and version are set
Patched(item, patch) ==
  LET set == [k \in DOMAIN item |-> IF k \in DOMAIN patch THEN patch[k] ELSE item[k]]
  IN [set EXCEPT !.updated_at = Now, !.version = Bump(set.version)]
\* lines 21-23 with the key 'id': the primary key is an attribute too
PatchedId(item_id, patch) == Field(patch, "id", item_id)

\* lines 18-27
UpdateInventoryItemGet(s) ==
  /\ pc[s] = "update_get"
  /\ IF call[s].item_id \notin DOMAIN items
       THEN Raise(s, "Item not found")
       ELSE /\ pending' = [pending EXCEPT ![s] =
                  [kind |-> "update", id |-> PatchedId(call[s].item_id, call[s].patch),
                   item |-> Patched(items[call[s].item_id], call[s].patch)]]
            /\ Goto(s, "update_commit")
            /\ UNCHANGED <<call, attempt, result, snap>>
  /\ UNCHANGED db

Remove(table, id) == [k \in DOMAIN table \ {id} |-> table[k]]

\* lines 28-30: the row, under its new primary key if the patch set one, and
\* the history row in one commit
UpdateInventoryItemCommit(s) ==
  /\ pc[s] = "update_commit"
  /\ call[s].item_id \in DOMAIN items
  /\ pending[s].id \notin DOMAIN items \ {call[s].item_id}
  /\ items' = Remove(items, call[s].item_id) @@ (pending[s].id :> pending[s].item)
  /\ history' = Append(history, InventoryHistory("update_item",
                  [id |-> call[s].item_id, patch |-> call[s].patch]))
  /\ assignments' = Flushed(assignments, added[s])
  /\ Return(s, pending[s].id)
  /\ UNCHANGED <<pools, laptops>>

\* line 28 raising: the new primary key is taken, or a storage error
UpdateInventoryItemCommitError(s) ==
  /\ pc[s] = "update_commit"
  /\ IF pending[s].id \in DOMAIN items \ {call[s].item_id}
       THEN RaiseLeaving(s, "IntegrityError", <<>>)
       ELSE RaiseLeaving(s, "SQLAlchemyError", <<>>)
  /\ UNCHANGED db

DeleteInventoryItemBegin(s) ==
  \E item_id \in 1..NextId(items) :
    Begin(s, [op |-> "delete_inventory_item", item_id |-> item_id], "delete_item")

PurgedHistory(item_id) ==
  SelectSeq(history, LAMBDA h : h.action # "update_item" \/ h.details.id # item_id)
\* the history rows already stored: delete_inventory_item leaves them alone
KeptHistory(item_id) == history

\* the rows that refer to the item: the foreign keys of inventory_models.py
\* lines 31 and 67
ReferencesTo(item_id) ==
  /\ item_id # NoId
  /\ \/ \E id \in DOMAIN assignments : assignments[id].item_id = item_id
     \/ \E id \in DOMAIN laptops : laptops[id].item_id = item_id

\* lines 33-38, on a store that does not enforce foreign keys (SQLite as
\* database.py opens it) or with no row referring to the item
DeleteInventoryItem(s) ==
  /\ pc[s] = "delete_item"
  /\ IF call[s].item_id \notin DOMAIN items
       THEN Raise(s, "Item not found") /\ UNCHANGED db
       ELSE /\ items' = Remove(items, call[s].item_id)
            /\ history' = Append(KeptHistory(call[s].item_id),
                                 InventoryHistory("delete_item", [id |-> call[s].item_id]))
            /\ Return(s, NoId)
            /\ UNCHANGED <<pools, laptops, assignments>>

\* line 38 raising on a store that enforces foreign keys (PostgreSQL): rows
\* still refer to the item
DeleteInventoryItemIntegrityError(s) ==
  /\ pc[s] = "delete_item"
  /\ call[s].item_id \in DOMAIN items
  /\ ReferencesTo(call[s].item_id)
  /\ Raise(s, "IntegrityError")
  /\ UNCHANGED db

----------------------------------------------------------------------------
(* bulk_import *)

BulkImportBegin(s) ==
  \E batch \in Batches :
    /\ Len(history) + Len(batch) <= MaxHistory
    /\ Cardinality(DOMAIN items) + Len(batch) <= MaxItems
    /\ Begin(s, [op |-> "bulk_import", items |-> batch], "bulk_build")

\* inventory_routes.py lines 159-172: an empty batch is refused; a record that
\* cannot be built rolls the session back and ends the request; else every
\* record is added to the session with its history row
BulkImportBuild(s) ==
  /\ pc[s] = "bulk_build"
  /\ IF call[s].items = <<>>
       THEN Raise(s, "No items")
       ELSE IF \E i \in 1..Len(call[s].items) : call[s].items[i] = Malformed
              THEN Raise(s, "Error importing record")
              ELSE /\ Goto(s, "bulk_commit")
                   /\ UNCHANGED <<call, attempt, pending, result, snap>>
  /\ UNCHANGED db

RECURSIVE Imported(_, _)
\* the rows of the batch, inserted in the order of the batch
Imported(table, batch) ==
  IF batch = <<>> THEN table
  ELSE Imported(Insert(table, InventoryItem(Head(batch))), Tail(batch))

BulkHistoryOnce(batch) == <<InventoryHistory("bulk_import", batch[1])>>
\* inventory_routes.py line 168: one history row per record, details the record
BulkHistory(batch) ==
  [i \in 1..Len(batch) |-> InventoryHistory("bulk_import", batch[i])]

\* inventory_routes.py line 173: one commit for the whole batch
BulkImportCommit(s) ==
  /\ pc[s] = "bulk_commit"
  /\ items' = Imported(items, call[s].items)
  /\ history' = history \o BulkHistory(call[s].items)
  /\ Return(s, NoId)
  /\ UNCHANGED <<pools, laptops, assignments>>

\* inventory_routes.py line 173 raising: a constraint of the table or a
\* storage error; the transaction is rolled back
BulkImportCommitError(s) ==
  /\ pc[s] = "bulk_commit"
  /\ Raise(s, "SQLAlchemyError")
  /\ UNCHANGED db

----------------------------------------------------------------------------
(* create_assignment_for_item *)

CreateAssignmentForItemBegin(s) ==
  \E item_id \in 1..NextId(items), body \in Bodies :
    Begin(s, [op |-> "create_assignment_for_item", item_id |-> item_id, body |-> body],
          "assign_get")

\* lines 105-111
CreateAssignmentForItemGet(s) ==
  /\ pc[s] = "assign_get"
  /\ IF call[s].item_id \notin DOMAIN items
       THEN Raise(s, "Item not found")
       ELSE /\ pending' = [pending EXCEPT ![s] = [kind |-> "assign"]]
            /\ Goto(s, "assign_find")
            /\ UNCHANGED <<call, attempt, result, snap>>
  /\ UNCHANGED db

NeverInUse(laptop) == FALSE
\* line 116
InUse(laptop) == laptop.status = "in_use"

\* lines 113-125: the laptop linked to the item, if any, must not be in use
CreateAssignmentForItemFind(s) ==
  /\ pc[s] = "assign_find"
  /\ \/ /\ LaptopsOf(call[s].item_id) = {}
        /\ pending' = [pending EXCEPT ![s] = [kind |-> "assign", laptop_id |-> NoId]]
        /\ Goto(s, "assign_commit")
        /\ UNCHANGED <<call, attempt, result, snap>>
     \/ \E laptop_id \in LaptopsOf(call[s].item_id) :
          IF InUse(laptops[laptop_id])
            THEN RaiseLeaving(s, "Device already assigned",
                   Append(added[s], Assignment(call[s].item_id, NoId, call[s].body)))
            ELSE /\ pending' = [pending EXCEPT ![s] =
                       [kind |-> "assign", laptop_id |-> laptop_id]]
                 /\ Goto(s, "assign_commit")
                 /\ UNCHANGED <<call, attempt, result, snap>>
  /\ UNCHANGED db

Truthy(x) == x # None /\ x # ""

\* lines 126-130: one commit for the assignment, the laptop and the history row
CreateAssignmentForItemCommit(s) ==
  /\ pc[s] = "assign_commit"
  /\ LET laptop_id == pending[s].laptop_id
         body == call[s].body IN
       /\ laptop_id # NoId => laptop_id \in DOMAIN laptops
       /\ assignments' = Insert(Flushed(assignments, added[s]),
                                Assignment(call[s].item_id, NoId, body))
       /\ laptops' = IF laptop_id = NoId THEN laptops
                     ELSE [laptops EXCEPT ![laptop_id] =
                             [@ EXCEPT !.status = "in_use",
                                       !.assigned_to_upn = body.user_upn,
                                       !.device_graph_id =
                                          IF Truthy(body.device_graph_id)
                                            THEN body.device_graph_id ELSE @]]
       /\ history' = Append(history, InventoryHistory("assign_item",
                        [item_id |-> call[s].item_id] @@ body))
  /\ Return(s, NextId(assignments))
  /\ UNCHANGED <<pools, items>>

\* line 126 raising SQLAlchemyError: the failed commit rolls the session's
\* transaction back and the session drops the rows it held
CreateAssignmentForItemCommitError(s) ==
  /\ pc[s] = "assign_commit"
  /\ RaiseLeaving(s, "SQLAlchemyError", <<>>)
  /\ UNCHANGED db

----------------------------------------------------------------------------
(* laptop_routes.create_laptop, update_laptop, delete_laptop and
   inventory_routes.delete_device *)

CreateLaptopBegin(s) ==
  \E payload \in LaptopPayloads :
    /\ Cardinality(DOMAIN laptops) < MaxItems
    /\ Begin(s, [op |-> "create_laptop", payload |-> payload], "laptop_commit")

\* laptop_routes.py lines 25-28: the laptop is committed on its own
CreateLaptopCommit(s) ==
  /\ pc[s] = "laptop_commit"
  /\ laptops' = Insert(laptops, Laptop(call[s].payload))
  /\ pending' = [pending EXCEPT ![s] = [kind |-> "laptop", id |-> NextId(laptops)]]
  /\ Goto(s, "laptop_history")
  /\ UNCHANGED <<pools, items, assignments, history, call, attempt, result, snap>>

\* laptop_routes.py lines 29-31
CreateLaptopHistory(s) ==
  /\ pc[s] = "laptop_history"
  /\ history' = Append(history, InventoryHistory("create_laptop",
                  [id |-> pending[s].id] @@ call[s].payload))
  /\ Return(s, pending[s].id)
  /\ UNCHANGED <<pools, items, laptops, assignments>>

\* laptop_routes.py line 30 raising, then 32-34
CreateLaptopHistoryError(s) ==
  /\ pc[s] = "laptop_history"
  /\ Raise(s, "SQLAlchemyError")
  /\ UNCHANGED db

UpdateLaptopBegin(s) ==
  \E laptop_id \in 1..NextId(laptops), patch \in LaptopPatches :
    Begin(s, [op |-> "update_laptop", laptop_id |-> laptop_id, patch |-> patch],
          "patch_get")

\* lines 41-43: only the keys that are attributes of the row are set
ApplyPatch(row, patch) ==
  [k \in DOMAIN row |-> IF k \in DOMAIN patch THEN patch[k] ELSE row[k]]

\* lines 38-45
UpdateLaptopGet(s) ==
  /\ pc[s] = "patch_get"
  /\ IF call[s].laptop_id \notin DOMAIN laptops
       THEN Raise(s, "Laptop not found")
       ELSE /\ pending' = [pending EXCEPT ![s] = [kind |-> "patch"]]
            /\ Goto(s, "patch_commit")
            /\ UNCHANGED <<call, attempt, result, snap>>
  /\ UNCHANGED db

\* lines 45-49
UpdateLaptopCommit(s) ==
  /\ pc[s] = "patch_commit"
  /\ call[s].laptop_id \in DOMAIN laptops
  /\ laptops' = [laptops EXCEPT ![call[s].laptop_id] = ApplyPatch(@, call[s].patch)]
  /\ history' = Append(history, InventoryHistory("update_laptop",
                  [id |-> call[s].laptop_id, patch |-> call[s].patch]))
  /\ Return(s, call[s].laptop_id)
  /\ UNCHANGED <<pools, items, assignments>>

DeleteLaptopBegin(s) ==
  \E laptop_id \in 1..NextId(laptops) :
    Begin(s, [op |-> "delete_laptop", laptop_id |-> laptop_id], "delete_laptop")

\* laptop_routes.py lines 53-59
DeleteLaptop(s) ==
  /\ pc[s] = "delete_laptop"
  /\ IF call[s].laptop_id \notin DOMAIN laptops
       THEN Raise(s, "Laptop not found") /\ UNCHANGED db
       ELSE /\ laptops' = Remove(laptops, call[s].laptop_id)
            /\ history' = Append(history, InventoryHistory("delete_laptop",
                            [id |-> call[s].laptop_id]))
            /\ Return(s, NoId)
            /\ UNCHANGED <<pools, items, assignments>>

DeleteDeviceBegin(s) ==
  \E laptop_id \in 1..NextId(laptops) :
    Begin(s, [op |-> "delete_device", laptop_id |-> laptop_id], "delete_device")

WithItem(item_id) == items
\* inventory_routes.py lines 119-122: the item the laptop refers to is deleted
\* with it, if there is one
WithoutItem(item_id) ==
  IF item_id # NoId /\ item_id \in DOMAIN items THEN Remove(items, item_id) ELSE items

\* inventory_routes.py lines 108-132, on a store that does not enforce foreign
\* keys or with no other row referring to the item
DeleteDevice(s) ==
  /\ pc[s] = "delete_device"
  /\ IF call[s].laptop_id \notin DOMAIN laptops
       THEN Raise(s, "Laptop not found") /\ UNCHANGED db
       ELSE LET item_id == laptops[call[s].laptop_id].item_id IN
            /\ laptops' = Remove(laptops, call[s].laptop_id)
            /\ items' = WithoutItem(item_id)
            /\ history' = Append(history, InventoryHistory("delete_device",
                            [laptop_id |-> call[s].laptop_id, item_id |-> item_id]))
            /\ Return(s, call[s].laptop_id)
            /\ UNCHANGED <<pools, assignments>>

\* inventory_routes.py line 131 raising on a store that enforces foreign keys:
\* an assignment or another device still refers to the item
DeleteDeviceIntegrityError(s) ==
  /\ pc[s] = "delete_device"
  /\ call[s].laptop_id \in DOMAIN laptops
  /\ LET item_id == laptops[call[s].laptop_id].item_id IN
       /\ item_id \in DOMAIN items
       /\ \/ \E id \in DOMAIN assignments : assignments[id].item_id = item_id
          \/ \E id \in DOMAIN laptops \ {call[s].laptop_id} : laptops[id].item_id = item_id
  /\ Raise(s, "IntegrityError")
  /\ UNCHANGED db

----------------------------------------------------------------------------
(* summary_utils.py: infer_owner_from_device and summarize_devices *)

\* A string is the sequence of its characters; a field that is absent, null
\* or empty is the empty sequence, which is all the code tells apart (`if v:`).
NoValue == <<>>
UpperCase == <<"A", "B", "C", "D", "E", "F", "G", "H", "I", "J", "K", "L", "M", "N", "O", "P", "Q", "R", "S", "T", "U", "V", "W", "X", "Y", "Z">>
LowerCase == <<"a", "b", "c", "d", "e", "f", "g", "h", "i", "j", "k", "l", "m", "n", "o", "p", "q", "r", "s", "t", "u", "v", "w", "x", "y", "z">>
\* str.lower(), one character
LowerChar(c) ==
  IF \E i \in 1..Len(UpperCase) : UpperCase[i] = c
    THEN LowerCase[CHOOSE i \in 1..Len(UpperCase) : UpperCase[i] = c]
    ELSE c
Lower(v) == [i \in 1..Len(v) |-> LowerChar(v[i])]
\* str.strip()
Strip(v) ==
  LET inked == {i \in 1..Len(v) : v[i] # " "}
  IN IF inked = {} THEN <<>>
     ELSE SubSeq(v, CHOOSE i \in inked : \A j \in inked : i <= j, Max(inked))
\* `sub in v`
Contains(v, sub) ==
  \E i \in 1..(Len(v) - Len(sub) + 1) : SubSeq(v, i, i + Len(sub) - 1) = sub

\* line 13
CompanyWords == {<<"c", "o", "m", "p", "a", "n", "y">>,
                 <<"c", "o", "r", "p", "o", "r", "a", "t", "e">>,
                 <<"c", "o", "m", "p", "a", "n", "y", "o", "w", "n", "e", "d">>,
                 <<"c", "o", "m", "p", "a", "n", "y", "_", "o", "w", "n", "e", "d">>}
\* line 15
PersonalWords == {<<"p", "e", "r", "s", "o", "n", "a", "l">>,
                  <<"p", "e", "r", "s", "o", "n", "a", "l", "o", "w", "n", "e", "d">>,
                  <<"p", "e", "r", "s", "o", "n", "a", "l", "_", "o", "w", "n", "e", "d">>,
                  <<"u", "s", "e", "r">>}
\* line 7
OwnerFields == <<"ownerType", "ownership", "managedDeviceOwnerType">>

\* lines 9-21 for one field: the class its value decides, or "none"
Decided(v) ==
  IF v = NoValue THEN "none"
  ELSE LET vv == Lower(Strip(v)) IN
       IF vv \in CompanyWords THEN "company"
       ELSE IF vv \in PersonalWords THEN "personal"
       ELSE IF Contains(vv, <<"c", "o", "m", "p", "a", "n", "y">>) THEN "company"
       ELSE IF Contains(vv, <<"p", "e", "r", "s", "o", "n", "a", "l">>) \/ Contains(vv, <<"u", "s", "e", "r">>)
              THEN "personal"
       ELSE "none"

\* lines 25-32: the user principal, then the management agent
Fallback(d) ==
  IF d.userPrincipalName # NoValue THEN "personal"
  ELSE IF /\ d.managementAgent # NoValue
          /\ Contains(Lower(d.managementAgent), <<"m", "i", "c", "r", "o", "s", "o", "f", "t">>)
         THEN "company"
  ELSE "unknown"

UserFirst(d) ==
  IF d.userPrincipalName # NoValue THEN "personal"
  ELSE LET deciding == {i \in 1..Len(OwnerFields) : Decided(d[OwnerFields[i]]) # "none"}
       IN IF deciding # {}
            THEN Decided(d[OwnerFields[CHOOSE i \in deciding : \A j \in deciding : i <= j]])
            ELSE Fallback(d)
\* lines 5-32: the first field of line 7 whose value decides, else the fallbacks
infer_owner_from_device(d) ==
  LET deciding == {i \in 1..Len(OwnerFields) : Decided(d[OwnerFields[i]]) # "none"}
  IN IF deciding # {}
       THEN Decided(d[OwnerFields[CHOOSE i \in deciding : \A j \in deciding : i <= j]])
       ELSE Fallback(d)

\* lines 34-63, the counts that are stored or compared
summarize_devices(devices) ==
  [total |-> Len(devices),
   corporate |-> Cardinality({i \in 1..Len(devices) :
                               infer_owner_from_device(devices[i]) = "company"}),
   personal |-> Cardinality({i \in 1..Len(devices) :
                              infer_owner_from_device(devices[i]) = "personal"}),
   owners |-> [i \in 1..Len(devices) |-> infer_owner_from_device(devices[i])]]

\* what the directory reports in the three ownership fields, the user
\* principal and the management agent of a device
OwnerTypes == {NoValue, <<"C", "o", "m", "p", "a", "n", "y">>, <<" ", "C", "o", "r", "p", "o", "r", "a", "t", "e", " ">>,
               <<"p", "e", "r", "s", "o", "n", "a", "l">>, <<" ", "U", "s", "e", "r", " ">>,
               <<"P", "e", "r", "s", "o", "n", "a", "l", "-", "B", "Y", "O", "D">>,
               <<"u", "n", "k", "n", "o", "w", "n">>}
Ownerships == {NoValue, <<"p", "e", "r", "s", "o", "n", "a", "l">>, <<"u", "n", "k", "n", "o", "w", "n">>}
ManagedOwnerTypes == {NoValue, <<"c", "o", "m", "p", "a", "n", "y">>, <<"u", "n", "k", "n", "o", "w", "n">>}
Principals == {NoValue, <<"a", "@", "x">>}
Agents == {NoValue, <<"m", "d", "m">>, <<"M", "i", "c", "r", "o", "s", "o", "f", "t", "3", "6", "5">>}
Devices ==
  [ownerType : OwnerTypes, ownership : Ownerships,
   managedDeviceOwnerType : ManagedOwnerTypes,
   userPrincipalName : Principals, managementAgent : Agents]

\* main.py lines 25-29 with a directory of one device: the devices fetched and
\* the summary returned
DashboardSummary ==
  /\ summary = NoSummary
  /\ \E d \in Devices :
       summary' = [devices |-> <<d>>] @@ summarize_devices(<<d>>)
  /\ UNCHANGED <<db, requests, snapshots, job, users, now>>

\* the response is sent
DashboardRespond ==
  /\ summary # NoSummary
  /\ summary' = NoSummary
  /\ UNCHANGED <<db, requests, snapshots, job, users, now>>

----------------------------------------------------------------------------
(* snapshot_job.py: run_snapshot_once, with ms_graph.py fetch_managed_devices *)

CorporateLaptop ==
  [ownerType |-> <<"c", "o", "m", "p", "a", "n", "y">>, ownership |-> NoValue,
   managedDeviceOwnerType |-> NoValue, userPrincipalName |-> NoValue,
   managementAgent |-> <<"m", "d", "m">>]
PersonalPhone ==
  [ownerType |-> NoValue, ownership |-> NoValue, managedDeviceOwnerType |-> NoValue,
   userPrincipalName |-> <<"a", "@", "x">>, managementAgent |-> NoValue]
\* what the directory answers to a run: one page, or a page with a link to a
\* second one, seven devices in all
Feeds ==
  {<< <<CorporateLaptop, PersonalPhone, CorporateLaptop>> >>,
   << <<CorporateLaptop, PersonalPhone, CorporateLaptop>>,
      <<PersonalPhone, CorporateLaptop, PersonalPhone, CorporateLaptop>> >>}

Min(a, b) == IF a <= b THEN a ELSE b
\* snapshot_job.py lines 11-22
DeviceSnapshot(devices) ==
  LET s == summarize_devices(devices) IN
  [total |-> s.total, corporate |-> s.corporate, personal |-> s.personal,
   raw_sample |-> [count |-> Min(SampleSize, Len(devices)),
                   examples |-> SubSeq(devices, 1, Min(SampleSize, Len(devices)))]]

\* The scheduler's interval elapses, or the task that create_snapshot scheduled
\* starts
SnapshotBegin(r) ==
  /\ job[r].pc = "idle"
  /\ Len(snapshots) < MaxSnapshots
  /\ \E feed \in Feeds :
       job' = [job EXCEPT ![r] = [pc |-> "fetch", feed |-> feed, url |-> 1,
                                  devices |-> <<>>]]
  /\ UNCHANGED <<db, requests, snapshots, users, now, summary>>

\* ms_graph.py lines 35-39: one page is fetched and its devices are added; the
\* loop ends when the page has no next link
SnapshotFetch(r) ==
  /\ job[r].pc = "fetch"
  /\ job' = [job EXCEPT ![r].devices = @ \o job[r].feed[job[r].url],
                        ![r].url = @ + 1,
                        ![r].pc = IF job[r].url = Len(job[r].feed) THEN "commit" ELSE "fetch"]
  /\ UNCHANGED <<db, requests, snapshots, users, now, summary>>

FetchFailedGoesOn(j) == [j EXCEPT !.pc = "commit"]
\* the exception leaves fetch_managed_devices and run_snapshot_once
FetchFailed(j) == [j EXCEPT !.pc = "failed"]

\* ms_graph.py line 36 (or line 30) raising
SnapshotFetchError(r) ==
  /\ job[r].pc = "fetch"
  /\ job' = [job EXCEPT ![r] = FetchFailed(@)]
  /\ UNCHANGED <<db, requests, snapshots, users, now, summary>>

Merged(row) ==
  IF snapshots = <<>> THEN <<row>> ELSE [snapshots EXCEPT ![Len(snapshots)] = row]
\* snapshot_job.py lines 25-26: the row is inserted
Stored(row) == Append(snapshots, row)

JobHistoryWithEntry == Append(history, InventoryHistory("snapshot", [total |-> 0]))
\* snapshot_job.py lines 24-26: the session of the job adds the snapshot row
\* and nothing else, so the history it leaves is the history it found
JobHistory == history

\* snapshot_job.py lines 11-27
SnapshotCommit(r) ==
  /\ job[r].pc = "commit"
  /\ snapshots' = Stored(DeviceSnapshot(job[r].devices))
  /\ history' = JobHistory
  /\ job' = [job EXCEPT ![r].pc = "done"]
  /\ UNCHANGED <<pools, items, laptops, assignments, requests, users, now, summary>>

\* snapshot_job.py line 26 raising
SnapshotCommitError(r) ==
  /\ job[r].pc = "commit"
  /\ job' = [job EXCEPT ![r].pc = "failed"]
  /\ UNCHANGED <<db, requests, snapshots, users, now, summary>>

\* the run is over
SnapshotEnd(r) ==
  /\ job[r].pc \in {"done", "failed"}
  /\ job' = [job EXCEPT ![r] = NoJob]
  /\ UNCHANGED <<db, requests, snapshots, users, now, summary>>

RunSnapshotOnce(r) ==
  \/ SnapshotBegin(r)
  \/ SnapshotFetch(r)
  \/ SnapshotFetchError(r)
  \/ SnapshotCommit(r)
  \/ SnapshotCommitError(r)
  \/ SnapshotEnd(r)

----------------------------------------------------------------------------
(* ms_graph.py: fetch_users_cached, called by users_routes.py list_users *)

\* users_routes.py line 14: ttl_seconds=60, in ticks of 30 seconds
Ttl == 2

\* time passes
Tick ==
  /\ now < MaxTime
  /\ now' = now + 1
  /\ UNCHANGED <<db, requests, snapshots, job, users, summary>>

\* the directory's user list changes
DirectoryChanges ==
  /\ \E list \in UserLists \ {users.directory} :
       users' = [users EXCEPT !.directory = list]
  /\ UNCHANGED <<db, requests, snapshots, job, now, summary>>

\* what a call records for the response: when it was made, the time of the
\* directory fetch before it, whether it called the directory, what it returned
Called(fetched, list) ==
  [called |-> TRUE, at |-> now, fetched_before |-> users.cached_at,
   had_fetched |-> users.cached_result # <<>>, fetched |-> fetched, result |-> list]

\* lines 65-74, the body that lru_cache wraps: the cached result if it is
\* younger than the ttl and not empty, else the directory's list
Body ==
  IF now - users.cached_at < Ttl /\ users.cached_result # <<>>
    THEN [users EXCEPT !.memo = {users.cached_result},
                       !.last = Called(FALSE, users.cached_result)]
    ELSE [users EXCEPT !.memo = {users.directory},
                       !.cached_result = users.directory,
                       !.cached_at = now,
                       !.last = Called(TRUE, users.directory)]
\* line 58: lru_cache(maxsize=1) returns what it memoized for the arguments
\* (always ttl_seconds=60) and runs the body only if it memoized nothing
fetch_users_cached ==
  IF users.memo # {}
    THEN [users EXCEPT !.last = Called(FALSE, CHOOSE list \in users.memo : TRUE)]
    ELSE Body

\* users_routes.py lines 13-17
ListUsers ==
  /\ users' = fetch_users_cached
  /\ UNCHANGED <<db, requests, snapshots, job, now, summary>>

\* ms_graph.py line 71 raising inside the body: nothing is memoized or stored,
\* and list_users answers 500
ListUsersError ==
  /\ users.memo = {}
  /\ ~(now - users.cached_at < Ttl /\ users.cached_result # <<>>)
  /\ users' = [users EXCEPT !.last = [called |-> FALSE]]
  /\ UNCHANGED <<db, requests, snapshots, job, now, summary>>

----------------------------------------------------------------------------
(* Specifications *)

\* No snapshot yet, no run in flight, fetch_users_cached never called
InitBridge ==
  /\ snapshots = <<>>
  /\ job = [r \in Runs |-> NoJob]
  /\ users = NoUsers
  /\ now = 0
  /\ summary = NoSummary

Init ==
  /\ pools = EmptyTable
  /\ items = EmptyTable
  /\ laptops = EmptyTable
  /\ assignments = EmptyTable
  /\ history = <<>>
  /\ pc = [s \in Sessions |-> "idle"]
  /\ call = [s \in Sessions |-> NoCall]
  /\ attempt = [s \in Sessions |-> 0]
  /\ pending = [s \in Sessions |-> NoPending]
  /\ result = [s \in Sessions |-> NoResult]
  /\ snap = [s \in Sessions |-> NoSnap]
  /\ added = [s \in Sessions |-> <<>>]
  /\ InitBridge

CreateLicensePool(s) ==
  \/ CreateLicensePoolBegin(s)
  \/ CreateLicensePoolCommit(s)
  \/ CreateLicensePoolDuplicate(s)
  \/ CreateLicensePoolHistory(s)
  \/ CreateLicensePoolHistoryError(s)

AllocateLicense(s) ==
  \/ AllocateLicenseBegin(s)
  \/ AllocateLicenseGet(s)
  \/ AllocateLicenseCommit(s)
  \/ AllocateLicenseConflict(s)
  \/ AllocateLicenseRefresh(s)
  \/ AllocateLicenseRefreshError(s)

ReturnAssignment(s) ==
  \/ ReturnAssignmentBegin(s)
  \/ ReturnAssignmentGet(s)
  \/ ReturnAssignmentLoad(s)
  \/ ReturnAssignmentCommit(s)
  \/ ReturnAssignmentCommitError(s)

ReturnAssignmentByItem(s) ==
  \/ ReturnAssignmentByItemBegin(s)
  \/ ReturnAssignmentByItemFind(s)

ReturnLicense(s) ==
  \/ ReturnLicenseBegin(s)
  \/ ReturnLicenseGet(s)
  \/ ReturnLicenseLoad(s)
  \/ ReturnLicenseCommit(s)
  \/ ReturnLicenseCommitError(s)

CreateLaptop(s) ==
  \/ CreateLaptopBegin(s)
  \/ CreateLaptopCommit(s)
  \/ CreateLaptopHistory(s)
  \/ CreateLaptopHistoryError(s)

UpdateInventoryItem(s) ==
  \/ UpdateInventoryItemBegin(s)
  \/ UpdateInventoryItemGet(s)
  \/ UpdateInventoryItemCommit(s)
  \/ UpdateInventoryItemCommitError(s)

CreateInventoryItem(s) ==
  \/ CreateInventoryItemBegin(s)
  \/ CreateInventoryItemCommit(s)
  \/ CreateInventoryItemHistory(s)
  \/ CreateInventoryItemHistoryError(s)

CreateDeviceAtomic(s) ==
  \/ CreateDeviceAtomicBegin(s)
  \/ CreateDeviceAtomicCommit(s)
  \/ CreateDeviceAtomicError(s)
  \/ CreateDeviceAtomicRefresh(s)
  \/ CreateDeviceAtomicRefreshError(s)

CreateAssignmentForItem(s) ==
  \/ CreateAssignmentForItemBegin(s)
  \/ CreateAssignmentForItemGet(s)
  \/ CreateAssignmentForItemFind(s)
  \/ CreateAssignmentForItemCommit(s)
  \/ CreateAssignmentForItemCommitError(s)

UpdateLaptop(s) ==
  \/ UpdateLaptopBegin(s)
  \/ UpdateLaptopGet(s)
  \/ UpdateLaptopCommit(s)

DeleteLaptopOrDevice(s) ==
  \/ DeleteLaptopBegin(s)
  \/ DeleteLaptop(s)
  \/ DeleteDeviceBegin(s)
  \/ DeleteDevice(s)
  \/ DeleteDeviceIntegrityError(s)

\* License pools, one request at a time
NextPoolSerial ==
  \/ CreateLicensePool("s1")
  \/ AllocateLicense("s1")
  \/ ReturnAssignment("s1")
  \/ Respond("s1")
SpecPoolSerial == Init /\ [][NextPoolSerial]_vars

\* One license pool, as a create_license_pool request leaves the store, and
\* allocate and return requests running concurrently against it
InitPool ==
  /\ \E payload \in PoolPayloads :
       /\ pools = Insert(EmptyTable, LicensePool(payload))
       /\ history = <<InventoryHistory("create_licensepool",
                        [id |-> 1] @@ LicensePool(payload))>>
  /\ items = EmptyTable
  /\ laptops = EmptyTable
  /\ assignments = EmptyTable
  /\ pc = [s \in Sessions |-> "idle"]
  /\ call = [s \in Sessions |-> NoCall]
  /\ attempt = [s \in Sessions |-> 0]
  /\ pending = [s \in Sessions |-> NoPending]
  /\ result = [s \in Sessions |-> NoResult]
  /\ snap = [s \in Sessions |-> NoSnap]
  /\ added = [s \in Sessions |-> <<>>]
  /\ InitBridge
NextPool ==
  \E s \in Sessions :
    \/ AllocateLicense(s)
    \/ ReturnAssignment(s)
    \/ Respond(s)
SpecPool == InitPool /\ [][NextPool]_vars

\* Items and devices, one request at a time
NextDeviceSerial ==
  \/ CreateInventoryItem("s1")
  \/ CreateDeviceAtomic("s1")
  \/ CreateAssignmentForItem("s1")
  \/ ReturnAssignment("s1")
  \/ ReturnAssignmentByItem("s1")
  \/ Respond("s1")
SpecDeviceSerial == Init /\ [][NextDeviceSerial]_vars

\* Items and devices with the laptop routes, one request at a time
NextDeviceAdmin ==
  \/ CreateDeviceAtomic("s1")
  \/ CreateAssignmentForItem("s1")
  \/ ReturnAssignment("s1")
  \/ ReturnAssignmentByItem("s1")
  \/ UpdateLaptop("s1")
  \/ DeleteLaptopOrDevice("s1")
  \/ Respond("s1")
SpecDeviceAdmin == Init /\ [][NextDeviceAdmin]_vars

\* One item with its device, as a create_device_atomic request with a bare
\* laptop payload leaves the store, and assign and return requests running
\* concurrently against it
BareLaptop == Laptop([item_id |-> 1, status |-> "in_stock", assigned_to_upn |-> None,
                      device_graph_id |-> None])
InitDevice ==
  /\ \E item_payload \in ItemPayloads :
       /\ history = <<InventoryHistory("create_device",
                        [item |-> item_payload, laptop |-> BareLaptop])>>
       /\ items = Insert(EmptyTable, InventoryItem(item_payload))
  /\ laptops = Insert(EmptyTable, BareLaptop)
  /\ pools = EmptyTable
  /\ assignments = EmptyTable
  /\ pc = [s \in Sessions |-> "idle"]
  /\ call = [s \in Sessions |-> NoCall]
  /\ attempt = [s \in Sessions |-> 0]
  /\ pending = [s \in Sessions |-> NoPending]
  /\ result = [s \in Sessions |-> NoResult]
  /\ snap = [s \in Sessions |-> NoSnap]
  /\ added = [s \in Sessions |-> <<>>]
  /\ InitBridge
NextDevice ==
  \E s \in Sessions :
    \/ CreateAssignmentForItem(s)
    \/ ReturnAssignment(s)
    \/ ReturnAssignmentByItem(s)
    \/ Respond(s)
SpecDevice == InitDevice /\ [][NextDevice]_vars

\* Inventory items created, updated and deleted, one request at a time
NextItemSerial ==
  \/ CreateInventoryItem("s1")
  \/ UpdateInventoryItem("s1")
  \/ DeleteInventoryItemBegin("s1")
  \/ DeleteInventoryItem("s1")
  \/ Respond("s1")
SpecItemSerial == Init /\ [][NextItemSerial]_vars

\* The same with any payload and any patch
NextItemAny ==
  \/ CreateInventoryItemBeginWith("s1", AnyItemPayloads)
  \/ CreateInventoryItemCommit("s1")
  \/ CreateInventoryItemHistory("s1")
  \/ CreateInventoryItemHistoryError("s1")
  \/ UpdateInventoryItemBeginWith("s1", AnyItemPatches)
  \/ UpdateInventoryItemGet("s1")
  \/ UpdateInventoryItemCommit("s1")
  \/ UpdateInventoryItemCommitError("s1")
  \/ DeleteInventoryItemBegin("s1")
  \/ DeleteInventoryItem("s1")
  \/ Respond("s1")
SpecItemAny == Init /\ [][NextItemAny]_vars

\* Batches of items imported and items deleted, one request at a time
NextBulk ==
  \/ BulkImportBegin("s1")
  \/ BulkImportBuild("s1")
  \/ BulkImportCommit("s1")
  \/ BulkImportCommitError("s1")
  \/ DeleteInventoryItemBegin("s1")
  \/ DeleteInventoryItem("s1")
  \/ Respond("s1")
SpecBulk == Init /\ [][NextBulk]_vars

\* The dashboard summary of every device the directory may report
NextOwner == DashboardSummary \/ DashboardRespond
SpecOwner == Init /\ [][NextOwner]_vars

\* The snapshot job, run by the scheduler and on demand, next to requests that
\* create inventory items
NextBridge ==
  \/ \E r \in Runs : RunSnapshotOnce(r)
  \/ CreateInventoryItem("s1")
  \/ Respond("s1")
SpecBridge == Init /\ [][NextBridge]_vars

\* The user list requested while time passes and the directory changes
NextUsers == Tick \/ DirectoryChanges \/ ListUsers \/ ListUsersError
SpecUsers == Init /\ [][NextUsers]_vars

\* Devices created through both routes, one request at a time
NextLaptop ==
  \/ CreateDeviceAtomic("s1")
  \/ CreateLaptop("s1")
  \/ Respond("s1")
SpecLaptop == Init /\ [][NextLaptop]_vars

\* The whole engine, pools and devices together, one request at a time, with
\* one SKU of pools and with devices that leave item_id to be back-filled
EnginePoolPayloads == {payload \in PoolPayloads : payload.sku = "E3"}
EngineLaptopPayloads == {payload \in LaptopPayloads : payload.item_id = NoId}
NextEngineSerial ==
  \/ CreateLicensePoolBeginWith("s1", EnginePoolPayloads)
  \/ CreateLicensePoolCommit("s1")
  \/ CreateLicensePoolDuplicate("s1")
  \/ CreateLicensePoolHistory("s1")
  \/ CreateLicensePoolHistoryError("s1")
  \/ AllocateLicense("s1")
  \/ CreateDeviceAtomicBeginWith("s1", EngineLaptopPayloads)
  \/ CreateDeviceAtomicCommit("s1")
  \/ CreateDeviceAtomicError("s1")
  \/ CreateDeviceAtomicRefresh("s1")
  \/ CreateDeviceAtomicRefreshError("s1")
  \/ CreateAssignmentForItem("s1")
  \/ ReturnAssignment("s1")
  \/ ReturnAssignmentByItem("s1")
  \/ ReturnLicense("s1")
  \/ Respond("s1")
SpecEngineSerial == Init /\ [][NextEngineSerial]_vars

\* The engine with the items updated and deleted, one request at a time
NextEngineItems ==
  \/ CreateLicensePoolBeginWith("s1", EnginePoolPayloads)
  \/ CreateLicensePoolCommit("s1")
  \/ CreateLicensePoolDuplicate("s1")
  \/ CreateLicensePoolHistory("s1")
  \/ CreateLicensePoolHistoryError("s1")
  \/ AllocateLicense("s1")
  \/ CreateDeviceAtomicBeginWith("s1", EngineLaptopPayloads)
  \/ CreateDeviceAtomicCommit("s1")
  \/ CreateDeviceAtomicError("s1")
  \/ CreateDeviceAtomicRefresh("s1")
  \/ CreateDeviceAtomicRefreshError("s1")
  \/ CreateAssignmentForItem("s1")
  \/ ReturnAssignment("s1")
  \/ UpdateInventoryItem("s1")
  \/ DeleteInventoryItemBegin("s1")
  \/ DeleteInventoryItem("s1")
  \/ DeleteInventoryItemIntegrityError("s1")
  \/ DeleteDeviceBegin("s1")
  \/ DeleteDevice("s1")
  \/ DeleteDeviceIntegrityError("s1")
  \/ Respond("s1")
SpecEngineItems == Init /\ [][NextEngineItems]_vars

\* One device, and a caller that runs assign and update calls one after the
\* other on a session it keeps or closes between two calls
NextSharedSession ==
  \/ CreateAssignmentForItem("s1")
  \/ UpdateInventoryItem("s1")
  \/ KeepSession("s1")
  \/ Respond("s1")
SpecSharedSession == InitDevice /\ [][NextSharedSession]_vars

----------------------------------------------------------------------------
(* Properties *)

\* The history rows written by create_license_pool for pool `id`
CreateEntries(id) ==
  {i \in 1..Len(history) :
     history[i].action = "create_licensepool" /\ history[i].details.id = id}
CreatedEmpty(id) == \E i \in CreateEntries(id) : history[i].details.allocated = 0
StartsWithin(id) ==
  \E i \in CreateEntries(id) :
    /\ 0 <= history[i].details.allocated
    /\ history[i].details.allocated <= history[i].details.total
AssignedTo(license_id) ==
  {id \in DOMAIN assignments :
     assignments[id].license_id = license_id /\ assignments[id].status = "assigned"}
ReturnedTo(license_id) ==
  {id \in DOMAIN assignments :
     assignments[id].license_id = license_id /\ assignments[id].status = "returned"}
Failed(s, detail) == result[s].status = "error" /\ result[s].detail = detail
Succeeded(s) == result[s].status = "ok"
Finished(s, op) == Done(s) /\ call[s].op = op
Unchanged(s) == Database = snap[s]

\* C1: with requests served one at a time, a pool created with allocated = 0
\* never has more 'assigned' assignments than its total, and its allocated
\* field equals their number.
C1_SerialAccounting ==
  \A id \in DOMAIN pools :
    CreatedEmpty(id) =>
      /\ Cardinality(AssignedTo(id)) <= pools[id].total
      /\ pools[id].allocated = Cardinality(AssignedTo(id))

\* C1 witness: a pool created empty is full again after a seat was returned.
C1_Witness ==
  \E id \in DOMAIN pools :
    /\ CreatedEmpty(id)
    /\ pools[id].total >= 1
    /\ Cardinality(AssignedTo(id)) = pools[id].total
    /\ ReturnedTo(id) # {}

\* C2: with allocate_license and return_assignment requests interleaved, a
\* pool created with allocated = 0 still never has more 'assigned' assignments
\* than its total, and allocated equals their number, as in a serial order of
\* the same requests.
C2_Linearizable ==
  \A id \in DOMAIN pools :
    CreatedEmpty(id) =>
      /\ Cardinality(AssignedTo(id)) <= pools[id].total
      /\ Cardinality(AssignedTo(id)) = pools[id].allocated

\* C3: a pool that starts with 0 <= allocated <= total never has allocated
\* above total, whatever the interleaving of allocate and return requests.
C3_AllocatedAtMostTotal ==
  \A id \in DOMAIN pools :
    StartsWithin(id) => pools[id].allocated <= pools[id].total

\* C3 witness: two allocate requests raced for the last seat and both
\* committed, and the pool is full.
C3_Witness ==
  \E id \in DOMAIN pools :
    /\ StartsWithin(id)
    /\ pools[id].allocated = pools[id].total
    /\ Cardinality(AssignedTo(id)) > pools[id].total
    /\ \A s \in Sessions : Finished(s, "allocate_license") /\ Succeeded(s)

\* C4: an allocate_license request on a pool that has no seat left when the
\* request arrives ends with 'No available license' and leaves every table,
\* the history included, as it was.
C4_ExhaustedPoolRejects ==
  \A s \in Sessions :
    ( /\ Finished(s, "allocate_license")
      /\ call[s].license_id \in DOMAIN snap[s].pools
      /\ Available(snap[s].pools[call[s].license_id]) <= 0 )
    => Failed(s, "No available license") /\ Unchanged(s)

\* C4 witness: the third allocation on a pool of two seats is rejected.
C4_Witness ==
  \E s \in Sessions :
    /\ Finished(s, "allocate_license")
    /\ Failed(s, "No available license")
    /\ call[s].license_id \in DOMAIN pools
    /\ pools[call[s].license_id].total = 2
    /\ pools[call[s].license_id].allocated = 2
    /\ Cardinality(AssignedTo(call[s].license_id)) = 2

\* C5: a successful allocate_license request adds exactly one to the pool's
\* allocated, exactly one Assignment (license_id set, item_id unset, status
\* 'assigned') and exactly one 'allocate_license' history row, and changes
\* nothing else.
C5_OneSeatPerSuccess ==
  \A s \in Sessions :
    (Finished(s, "allocate_license") /\ Succeeded(s)) =>
      LET before == snap[s]
          license_id == call[s].license_id
          new == result[s].id
      IN /\ pools = [before.pools EXCEPT ![license_id].allocated = @ + 1]
         /\ assignments = before.assignments @@ (new :> Assignment(NoId, license_id, call[s].body))
         /\ new \notin DOMAIN before.assignments
         /\ Len(history) = Len(before.history) + 1
         /\ SubSeq(history, 1, Len(before.history)) = before.history
         /\ history[Len(history)].action = "allocate_license"
         /\ items = before.items
         /\ laptops = before.laptops

\* The position of an allocate_license request in its attempts, and what holds
\* of it in every state and on every step
Allocating(s) == call[s].op = "allocate_license" /\ ~Idle(s)
Position(s) ==
  CASE pc[s] = "alloc_get" -> 3 * attempt[s]
    [] pc[s] = "alloc_commit" -> 3 * attempt[s] + 1
    [] pc[s] = "alloc_refresh" -> 3 * attempt[s] + 2
    [] OTHER -> 3 * MaxRetries
C6_State(s) ==
  Allocating(s) =>
    /\ attempt[s] \in 0..(MaxRetries - 1)
    /\ pc[s] = "alloc_get" => pending[s].kind = "none"
    /\ Failed(s, "SQLAlchemyError") => attempt[s] = MaxRetries - 1
    /\ ~Done(s) => ENABLED AllocateLicense(s)
C6_Step(s) ==
  (Allocating(s) /\ pc'[s] # pc[s] /\ ~Done(s)) =>
    /\ Position(s)' > Position(s)
    /\ pc'[s] = "alloc_get" =>
         /\ pc[s] \in {"alloc_commit", "alloc_refresh"}
         /\ attempt'[s] = attempt[s] + 1
         /\ pending'[s].kind = "none"
         /\ UNCHANGED db
    /\ (pc[s] \in {"alloc_commit", "alloc_refresh"} /\ attempt[s] = MaxRetries - 1) =>
         \/ pc[s] = "alloc_commit" /\ pc'[s] = "alloc_refresh"
         \/ pc'[s] = "done" /\ result'[s].status = "ok"
         \/ pc'[s] = "done" /\ result'[s].detail = "SQLAlchemyError"
    /\ (pc[s] = "alloc_get" /\ call[s].license_id \notin DOMAIN pools) =>
         pc'[s] = "done" /\ result'[s].detail = "License pool not found"
    /\ (pc[s] = "alloc_get" /\ call[s].license_id \in DOMAIN pools
          /\ Available(pools[call[s].license_id]) <= 0) =>
         pc'[s] = "done" /\ result'[s].detail = "No available license"

\* C6: allocate_license runs its read-check-increment-commit sequence at most
\* MaxRetries times; every retry follows a storage error, starts from a rolled
\* back session and writes nothing itself; a storage error on the last attempt
\* ends the request with that error, and only then; an absent or exhausted
\* pool ends the request at once; and every step of the request moves it
\* forward in a bounded order while a next step is always possible, so the
\* request terminates.
C6_BoundedRetry ==
  /\ [](\A s \in Sessions : C6_State(s))
  /\ [][\A s \in Sessions : C6_Step(s)]_vars

\* C6 witness: a request ended with the storage error after its last attempt.
C6_Witness ==
  \E s \in Sessions :
    /\ Finished(s, "allocate_license")
    /\ Failed(s, "SQLAlchemyError")
    /\ attempt[s] = MaxRetries - 1

\* The devices linked to the item when the request arrived
SnapLaptopsOf(s, item_id) ==
  {id \in DOMAIN snap[s].laptops : snap[s].laptops[id].item_id = item_id}

\* C7: a create_assignment_for_item request on an item whose linked devices
\* are all 'in_use' when it arrives ends with 'Device already assigned' and
\* leaves every table, the history included, as it was.
C7_InUseDeviceRejects ==
  \A s \in Sessions :
    ( /\ Finished(s, "create_assignment_for_item")
      /\ call[s].item_id \in DOMAIN snap[s].items
      /\ SnapLaptopsOf(s, call[s].item_id) # {}
      /\ \A id \in SnapLaptopsOf(s, call[s].item_id) :
           snap[s].laptops[id].status = "in_use" )
    => Failed(s, "Device already assigned") /\ Unchanged(s)

\* C7 witness: the second assign request on an item whose device the first
\* one put in use is rejected.
C7_Witness ==
  \E s \in Sessions :
    /\ Finished(s, "create_assignment_for_item")
    /\ Failed(s, "Device already assigned")
    /\ Cardinality(ActiveAssignments(call[s].item_id)) = 1
    /\ \E id \in LaptopsOf(call[s].item_id) :
         laptops[id].assigned_to_upn # None

\* C8: every InventoryItem, with or without a linked Device, has at most one
\* Assignment with status 'assigned'.
C8_OneActivePerItem ==
  \A item_id \in DOMAIN items : Cardinality(ActiveAssignments(item_id)) <= 1

\* C9: a Device is 'in_stock' exactly when its item has no 'assigned'
\* Assignment, and 'in_use' exactly when it has exactly one.
C9_StatusAgrees ==
  \A id \in DOMAIN laptops :
    LET active == Cardinality(ActiveAssignments(laptops[id].item_id)) IN
      /\ laptops[id].status = "in_stock" <=> active = 0
      /\ laptops[id].status = "in_use" <=> active = 1

\* C10: assign requests racing on one item never leave it with two 'assigned'
\* Assignments, nor its 'in_use' device with two of them.
C10_OneWinner ==
  /\ \A item_id \in DOMAIN items :
       ~(\E a, b \in ActiveAssignments(item_id) : a # b)
  /\ \A id \in DOMAIN laptops :
       laptops[id].status = "in_use" =>
         ~(\E a, b \in ActiveAssignments(laptops[id].item_id) : a # b)

\* The assignment a return request names, as the request found it
Returning(s) == snap[s].assignments[call[s].assignment_id]
StorageError(s) == Failed(s, "SQLAlchemyError") /\ Unchanged(s)

\* C11: a return_assignment request on an 'assigned' assignment leaves it
\* 'returned' in the store (or ends with a storage error and no change); a
\* return_assignment request on an assignment already 'returned' ends with
\* 'Assignment not in assigned state' and leaves assignments, pools, devices
\* and history as they were.
C11_ReturnOnce ==
  \A s \in Sessions :
    ( /\ Finished(s, "return_assignment")
      /\ call[s].assignment_id \in DOMAIN snap[s].assignments )
    => /\ Returning(s).status = "assigned" =>
            \/ StorageError(s)
            \/ /\ Succeeded(s)
               /\ result[s].id = call[s].assignment_id
               /\ assignments[call[s].assignment_id].status = "returned"
       /\ Returning(s).status = "returned" =>
            /\ Failed(s, "Assignment not in assigned state")
            /\ Unchanged(s)

\* C11 witness: the second return of a license assignment is rejected.
C11_Witness ==
  \E s \in Sessions :
    /\ Finished(s, "return_assignment")
    /\ Failed(s, "Assignment not in assigned state")
    /\ call[s].assignment_id \in DOMAIN assignments
    /\ assignments[call[s].assignment_id].status = "returned"
    /\ assignments[call[s].assignment_id].license_id \in DOMAIN pools
    /\ \E i \in 1..Len(history) : history[i].action = "return_assignment"

\* What a successful return of a license assignment left in its pool
ReturnedSeat(s) ==
  /\ Finished(s, "return_assignment")
  /\ Succeeded(s)
  /\ Returning(s).license_id \in DOMAIN snap[s].pools
FlooredReturn(s) ==
  LET before == snap[s].pools[Returning(s).license_id].allocated
      after == pools[Returning(s).license_id].allocated
  IN after = (IF before - 1 > 0 THEN before - 1 ELSE 0)

\* C12: a successful return of a license assignment leaves its pool with
\* allocated = max(0, allocated before - 1), and no pool has a negative
\* allocated in any reachable state.
C12_FlooredReturn ==
  /\ \A s \in Sessions : ReturnedSeat(s) => FlooredReturn(s)
  /\ \A id \in DOMAIN pools : pools[id].allocated >= 0

\* The one device linked to the item of the request when it arrived
OneLinked(s) == Cardinality(SnapLaptopsOf(s, call[s].item_id)) = 1
Linked(s) == CHOOSE id \in SnapLaptopsOf(s, call[s].item_id) : TRUE

\* C13: for an item with one linked device, an assign request that finds the
\* device 'in_stock' succeeds (short of a storage error), adds an 'assigned'
\* Assignment of the item and leaves the device 'in_use' with the request's
\* user; one that finds it 'in_use' ends with 'Device already assigned' and
\* changes nothing; a successful return_assignment_by_item leaves the
\* assignment 'returned' and the device 'in_stock' with its assigned user and
\* device reference cleared, so that the next assign request succeeds again.
C13_AssignReturnCycle ==
  \A s \in Sessions :
    /\ ( /\ Finished(s, "create_assignment_for_item")
         /\ call[s].item_id \in DOMAIN snap[s].items
         /\ OneLinked(s) )
       => /\ snap[s].laptops[Linked(s)].status = "in_use" =>
               Failed(s, "Device already assigned") /\ Unchanged(s)
          /\ snap[s].laptops[Linked(s)].status = "in_stock" =>
               \/ StorageError(s)
               \/ /\ Succeeded(s)
                  /\ result[s].id \notin DOMAIN snap[s].assignments
                  /\ assignments[result[s].id] =
                       Assignment(call[s].item_id, NoId, call[s].body)
                  /\ laptops[Linked(s)].status = "in_use"
                  /\ laptops[Linked(s)].assigned_to_upn = call[s].body.user_upn
    /\ ( /\ Finished(s, "return_assignment_by_item")
         /\ Succeeded(s)
         /\ OneLinked(s) )
       => /\ assignments[result[s].id].status = "returned"
          /\ assignments[result[s].id].item_id = call[s].item_id
          /\ laptops[Linked(s)].status = "in_stock"
          /\ laptops[Linked(s)].assigned_to_upn = None
          /\ laptops[Linked(s)].device_graph_id = None

\* C13 witness: the item is assigned again after its first assignment, made
\* with a device reference, was returned by item.
C13_Witness ==
  \E s \in Sessions :
    /\ Finished(s, "create_assignment_for_item")
    /\ Succeeded(s)
    /\ OneLinked(s)
    /\ laptops[Linked(s)].status = "in_use"
    /\ \E id \in DOMAIN assignments :
         /\ assignments[id].item_id = call[s].item_id
         /\ assignments[id].status = "returned"
         /\ assignments[id].device_graph_id # None
    /\ \E i \in 1..Len(history) : history[i].action = "create_device"

\* The 'assigned' assignments of the request's item when it arrived
SnapActive(s) ==
  {id \in DOMAIN snap[s].assignments :
     /\ snap[s].assignments[id].item_id = call[s].item_id
     /\ snap[s].assignments[id].status = "assigned"}
\* What return_assignment on the item assignment `id` makes of the store the
\* request found: the assignment returned, one linked device (if there is
\* any) checked in, one history row, and nothing else
ReturnedFrom(s, id) ==
  /\ assignments = [snap[s].assignments EXCEPT ![id].status = "returned"]
  /\ pools = snap[s].pools
  /\ items = snap[s].items
  /\ IF SnapLaptopsOf(s, snap[s].assignments[id].item_id) = {}
       THEN laptops = snap[s].laptops
       ELSE \E d \in SnapLaptopsOf(s, snap[s].assignments[id].item_id) :
              laptops = [snap[s].laptops EXCEPT ![d] =
                           [@ EXCEPT !.status = "in_stock", !.assigned_to_upn = None,
                                     !.device_graph_id = None]]
  /\ history = Append(snap[s].history, InventoryHistory("return_assignment",
                                                       [assignment_id |-> id]))

\* C14: a return_assignment_by_item request on an item with no 'assigned'
\* Assignment ends with 'No active assignment for item' and changes nothing;
\* otherwise (short of a storage error) it returns exactly one 'assigned'
\* Assignment of that item, with the effects of return_assignment on it.
C14_ReturnByItem ==
  \A s \in Sessions :
    Finished(s, "return_assignment_by_item") =>
      /\ SnapActive(s) = {} =>
           Failed(s, "No active assignment for item") /\ Unchanged(s)
      /\ SnapActive(s) # {} =>
           \/ StorageError(s)
           \/ /\ Succeeded(s)
              /\ result[s].id \in SnapActive(s)
              /\ ReturnedFrom(s, result[s].id)

\* C14 witness: a return by item is rejected on an item whose only assignment
\* was returned before.
C14_Witness ==
  \E s \in Sessions :
    /\ Finished(s, "return_assignment_by_item")
    /\ Failed(s, "No active assignment for item")
    /\ \E id \in DOMAIN assignments :
         /\ assignments[id].item_id = call[s].item_id
         /\ assignments[id].status = "returned"

\* Rows of `table` other than `id` are what the request found
OthersKept(table, before, id) ==
  /\ DOMAIN table = DOMAIN before
  /\ \A k \in DOMAIN table \ {id} : table[k] = before[k]

\* C15: a successful return_assignment takes one path. For a license
\* assignment it changes that assignment and that pool's allocated and leaves
\* every device, item and other pool as it was; for an item assignment it
\* changes that assignment and checks a device of that item in, and leaves
\* every pool, item and device of another item as it was.
C15_OnePath ==
  \A s \in Sessions :
    (Finished(s, "return_assignment") /\ Succeeded(s)) =>
      LET id == call[s].assignment_id
          a == Returning(s)
      IN /\ OthersKept(assignments, snap[s].assignments, id)
         /\ assignments[id] = [a EXCEPT !.status = "returned"]
         /\ items = snap[s].items
         /\ a.license_id # NoId =>
              /\ laptops = snap[s].laptops
              /\ OthersKept(pools, snap[s].pools, a.license_id)
              /\ a.license_id \in DOMAIN pools =>
                   /\ FlooredReturn(s)
                   /\ pools[a.license_id] =
                        [snap[s].pools[a.license_id] EXCEPT
                           !.allocated = pools[a.license_id].allocated]
         /\ (a.license_id = NoId /\ a.item_id # NoId) =>
              /\ pools = snap[s].pools
              /\ \A d \in DOMAIN snap[s].laptops \ SnapLaptopsOf(s, a.item_id) :
                   d \in DOMAIN laptops /\ laptops[d] = snap[s].laptops[d]
              /\ SnapLaptopsOf(s, a.item_id) # {} =>
                   \E d \in SnapLaptopsOf(s, a.item_id) :
                     /\ laptops[d].status = "in_stock"
                     /\ laptops[d].assigned_to_upn = None
                     /\ OthersKept(laptops, snap[s].laptops, d)

\* C15 witness: a license seat was returned while a device was in use, and
\* the pool lost the seat.
C15_Witness ==
  \E s \in Sessions :
    /\ Finished(s, "return_assignment")
    /\ Succeeded(s)
    /\ Returning(s).license_id \in DOMAIN pools
    /\ pools[Returning(s).license_id].allocated
         < snap[s].pools[Returning(s).license_id].allocated
    /\ \E d \in DOMAIN laptops : laptops[d].status = "in_use"

\* C16: a successful return_license leaves what return_assignment leaves for
\* the same assignment: the assignment 'returned', the seat given back to
\* its pool or a device of its item checked in, and one history row with the
\* action 'return_assignment'.
C16_SameContract ==
  \A s \in Sessions :
    (Finished(s, "return_license") /\ Succeeded(s)) =>
      LET id == call[s].assignment_id
          a == Returning(s)
      IN /\ assignments = [snap[s].assignments EXCEPT ![id].status = "returned"]
         /\ history = Append(snap[s].history,
                             InventoryHistory("return_assignment", [assignment_id |-> id]))
         /\ a.license_id \in DOMAIN snap[s].pools =>
              FlooredReturn(s) /\ laptops = snap[s].laptops
         /\ (a.license_id = NoId /\ a.item_id # NoId) => ReturnedFrom(s, id)

\* C17: a create_device_atomic request that fails leaves no item, no device
\* and no 'create_device' history row behind: the store is as it was.
C17_AllOrNothing ==
  \A s \in Sessions :
    (Finished(s, "create_device_atomic") /\ ~Succeeded(s)) =>
      /\ items = snap[s].items
      /\ laptops = snap[s].laptops
      /\ history = snap[s].history

\* C18: a successful create_device_atomic whose laptop payload has no item_id
\* links the new device to the item created with it, and no item ever has
\* more than one device linked to it.
C18_OneDevicePerItem ==
  /\ \A s \in Sessions :
       ( /\ Finished(s, "create_device_atomic")
         /\ Succeeded(s)
         /\ call[s].laptop_payload.item_id = NoId )
       => \E d \in DOMAIN laptops \ DOMAIN snap[s].laptops :
            /\ laptops[d].item_id = result[s].id
            /\ result[s].id \in DOMAIN items \ DOMAIN snap[s].items
  /\ \A item_id \in DOMAIN items : Cardinality(LaptopsOf(item_id)) <= 1

\* The history action the engine documents for each operation
ActionOf(op) ==
  CASE op = "create_inventory_item" -> "create_item"
    [] op = "create_license_pool" -> "create_licensepool"
    [] op = "allocate_license" -> "allocate_license"
    [] op = "return_assignment" -> "return_assignment"
    [] op = "return_assignment_by_item" -> "return_assignment"
    [] op = "create_assignment_for_item" -> "assign_item"
    [] op = "create_device_atomic" -> "create_device"
    [] OTHER -> "none"

\* C19: a request that ends successfully has added exactly one history row,
\* and the row's action is the one of its operation.
C19_OneEntryPerCall ==
  \A s \in Sessions :
    (Done(s) /\ Succeeded(s)) =>
      /\ Len(history) = Len(snap[s].history) + 1
      /\ SubSeq(history, 1, Len(snap[s].history)) = snap[s].history
      /\ history[Len(history)].action = ActionOf(call[s].op)

\* The history rows written by create_inventory_item for item `id`
ItemEntries(id) ==
  {i \in 1..Len(history) :
     history[i].action = "create_item" /\ history[i].details.id = id}

\* C20: in every state, also between two steps of an operation and after a
\* failure, every stored pool has its 'create_licensepool' history row and
\* every stored item its 'create_item' row.
C20_EntityWithHistory ==
  /\ \A id \in DOMAIN pools : CreateEntries(id) # {}
  /\ \A id \in DOMAIN items : ItemEntries(id) # {}

\* The operations of the engine that change rows already stored
EngineOps == {"update_inventory_item", "delete_inventory_item", "allocate_license",
              "return_assignment", "create_assignment_for_item"}

\* C21: an update_item, delete_item, allocate_license, return_assignment or
\* create_assignment_for_item request that ends with an error leaves items,
\* devices, pools, assignments and history as they were when it was received.
C21_FailureChangesNothing ==
  \A s \in Sessions :
    (Done(s) /\ call[s].op \in EngineOps /\ ~Succeeded(s)) => Unchanged(s)

\* C22: no step of a create_item, update_item or delete_item request removes
\* or changes a history row already stored: the history after a step starts
\* with the history before it.
C22_AppendOnly ==
  [][/\ Len(history') >= Len(history)
     /\ SubSeq(history', 1, Len(history)) = history]_vars

\* an item was deleted after an update of it was recorded, and both rows are
\* in the history
C22_Witness ==
  \E i, j \in 1..Len(history) :
    /\ i < j
    /\ history[i].action = "update_item"
    /\ history[j].action = "delete_item"
    /\ history[i].details.id = history[j].details.id
\* The attributes of an item that a patch names
Named(item, patch) == DOMAIN item \cap DOMAIN patch

C24_VersionPlusOne ==
  \A s \in Sessions :
    (Finished(s, "update_inventory_item") /\ Succeeded(s)) =>
      items[result[s].id].version = snap[s].items[call[s].item_id].version + 1
\* C25: every item in the store has quantity >= 0, whatever payloads and
\* patches the requests carry.
C25_QuantityNonNegative == \A id \in DOMAIN items : items[id].quantity >= 0

\* C26: every pool in the store has 0 <= allocated <= total, whatever
\* payloads create_license_pool is given.
C26_AllocatedWithinTotal ==
  \A id \in DOMAIN pools :
    0 <= pools[id].allocated /\ pools[id].allocated <= pools[id].total
\* C27: a create_license_pool request whose SKU is the SKU of a pool in the
\* store ends with the integrity error of the unique index and leaves pools
\* and history as they were, and no two pools in the store share a SKU.
C27_UniqueSku ==
  /\ \A s \in Sessions :
       (/\ Finished(s, "create_license_pool")
        /\ \E id \in DOMAIN snap[s].pools : snap[s].pools[id].sku = call[s].payload.sku)
         => Failed(s, "IntegrityError") /\ Unchanged(s)
  /\ \A id, other \in DOMAIN pools : pools[id].sku = pools[other].sku => id = other

\* a request with the SKU of a stored pool has been rejected
C27_Witness ==
  /\ Finished("s1", "create_license_pool") /\ Failed("s1", "IntegrityError")
  /\ \E id \in DOMAIN pools : pools[id].sku = call["s1"].payload.sku
\* C28: every assignment with an item_id refers to a stored item, every
\* assignment with a license_id refers to a stored pool, and every device with
\* an item_id refers to a stored item.
C28_ReferentialIntegrity ==
  /\ \A id \in DOMAIN assignments :
       /\ assignments[id].item_id # NoId => assignments[id].item_id \in DOMAIN items
       /\ assignments[id].license_id # NoId => assignments[id].license_id \in DOMAIN pools
  /\ \A id \in DOMAIN laptops :
       laptops[id].item_id # NoId => laptops[id].item_id \in DOMAIN items
\* The attributes of an assignment that say what is assigned to whom
Target(a) == <<a.item_id, a.license_id, a.user_upn, a.device_graph_id>>

\* C29: in every step, each stored assignment stays in the store with its
\* item_id, license_id and user fields as they were, its status stays as it
\* was or moves from 'assigned' to 'returned', and a new assignment appears
\* only in a step of allocate_license or create_assignment_for_item, with
\* status 'assigned'.
C29_AssignmentLifecycle ==
  [][/\ \A id \in DOMAIN assignments :
          /\ id \in DOMAIN assignments'
          /\ Target(assignments'[id]) = Target(assignments[id])
          /\ \/ assignments'[id].status = assignments[id].status
             \/ /\ assignments[id].status = "assigned"
                /\ assignments'[id].status = "returned"
     /\ \A id \in DOMAIN assignments' \ DOMAIN assignments :
          /\ assignments'[id].status = "assigned"
          /\ \E s \in Sessions :
               /\ pc[s] # "idle" /\ pc[s] # "done"
               /\ call[s].op \in {"allocate_license", "create_assignment_for_item"}]_vars

\* an assignment was returned and a later one is 'assigned' next to it
C29_Witness ==
  \E id, other \in DOMAIN assignments :
    /\ id < other
    /\ assignments[id].status = "returned"
    /\ assignments[other].status = "assigned"
\* C30: every stored assignment has exactly one of item_id and license_id
\* set.
C30_ExactlyOneTarget ==
  \A id \in DOMAIN assignments :
    (assignments[id].item_id # NoId) # (assignments[id].license_id # NoId)

\* an assignment of a license and an assignment of an item are in the store
C30_Witness ==
  /\ \E id \in DOMAIN assignments : assignments[id].license_id # NoId
  /\ \E id \in DOMAIN assignments : assignments[id].item_id # NoId
\* The id under which record i of a batch is stored by a request that found
\* the items `before`
ImportedId(before, i) == NextId(before) + i - 1

\* C31: a bulk_import request that ends with an error (an empty batch, a
\* record that cannot be built, a failing commit) leaves items and history as
\* it found them; one that succeeds has stored every record of its batch as an
\* item and one 'bulk_import' history row per record, and a batch with a
\* record that cannot be built never succeeds.
C31_BatchAllOrNothing ==
  \A s \in Sessions :
    Finished(s, "bulk_import") =>
      LET batch == call[s].items
          before == snap[s]
      IN IF Succeeded(s)
           THEN /\ \A i \in 1..Len(batch) : batch[i] # Malformed
                /\ DOMAIN items = DOMAIN before.items \cup
                                    {ImportedId(before.items, i) : i \in 1..Len(batch)}
                /\ \A id \in DOMAIN before.items : items[id] = before.items[id]
                /\ \A i \in 1..Len(batch) :
                     /\ items[ImportedId(before.items, i)].sku = batch[i].sku
                     /\ items[ImportedId(before.items, i)].quantity =
                          Field(batch[i], "quantity", 0)
                /\ Len(history) = Len(before.history) + Len(batch)
                /\ SubSeq(history, 1, Len(before.history)) = before.history
                /\ \A i \in 1..Len(batch) :
                     history[Len(before.history) + i] =
                       [action |-> "bulk_import", details |-> batch[i]]
                /\ <<pools, laptops, assignments>> =
                     <<before.pools, before.laptops, before.assignments>>
           ELSE Unchanged(s)

\* a batch of two records has been imported
C31_Witness ==
  /\ Finished("s1", "bulk_import") /\ Succeeded("s1")
  /\ Len(call["s1"].items) = 2
  /\ Cardinality(DOMAIN items) = 2

\* C32: a delete_device request for a stored device that succeeds has removed
\* the device and the item it was linked to and appended one 'delete_device'
\* history row, with pools and assignments as they were; it fails only where
\* the store refuses the delete, and then nothing has changed; a request for
\* an id that is not stored ends with 'Laptop not found' and changes nothing.
C32_DeleteDevice ==
  \A s \in Sessions :
    Finished(s, "delete_device") =>
      LET id == call[s].laptop_id
          before == snap[s]
      IN IF id \notin DOMAIN before.laptops
           THEN Failed(s, "Laptop not found") /\ Unchanged(s)
           ELSE LET item_id == before.laptops[id].item_id IN
                IF Succeeded(s)
                  THEN /\ DOMAIN laptops = DOMAIN before.laptops \ {id}
                       /\ \A other \in DOMAIN laptops : laptops[other] = before.laptops[other]
                       /\ DOMAIN items = DOMAIN before.items \ {item_id}
                       /\ \A other \in DOMAIN items : items[other] = before.items[other]
                       /\ history = Append(before.history,
                            [action |-> "delete_device",
                             details |-> [laptop_id |-> id, item_id |-> item_id]])
                       /\ pools = before.pools /\ assignments = before.assignments
                  ELSE Failed(s, "IntegrityError") /\ Unchanged(s)

\* a device linked to an item has been deleted, and the item with it
C32_Witness ==
  /\ Finished("s1", "delete_device") /\ Succeeded("s1")
  /\ snap["s1"].laptops[call["s1"].laptop_id].item_id \in DOMAIN snap["s1"].items
  /\ items = EmptyTable
\* The values of the ownership fields that name a corporate owner, and those
\* that name a personal one
CorporateValues == {<<"C", "o", "m", "p", "a", "n", "y">>, <<" ", "C", "o", "r", "p", "o", "r", "a", "t", "e", " ">>,
                    <<"c", "o", "m", "p", "a", "n", "y">>}
PersonalValues == {<<"p", "e", "r", "s", "o", "n", "a", "l">>, <<" ", "U", "s", "e", "r", " ">>,
                   <<"P", "e", "r", "s", "o", "n", "a", "l", "-", "B", "Y", "O", "D">>}
\* The classes that the explicit ownership fields of a device name
ExplicitClasses(d) ==
  {class \in {"company", "personal"} :
     \E i \in 1..Len(OwnerFields) :
       \/ class = "company" /\ d[OwnerFields[i]] \in CorporateValues
       \/ class = "personal" /\ d[OwnerFields[i]] \in PersonalValues}

Completing == {r \in Runs : job[r].pc = "commit" /\ job'[r].pc = "done"}
RECURSIVE Flatten(_)
\* All devices of a feed, page after page
Flatten(feed) == IF feed = <<>> THEN <<>> ELSE Head(feed) \o Flatten(Tail(feed))

\* C33: a step in which a run of the snapshot job completes adds exactly one
\* row after the rows already stored, every other step leaves the rows alone,
\* no step changes or removes a stored row, and the raw sample of every row
\* holds the first SampleSize devices of its run, or all of them if fewer.
C33_OneRowPerRun ==
  /\ [][/\ Len(snapshots') = Len(snapshots) + Cardinality(Completing)
        /\ SubSeq(snapshots', 1, Len(snapshots)) = snapshots
        /\ \A r \in Completing :
             LET row == snapshots'[Len(snapshots')]
                 size == Min(SampleSize, Len(job[r].devices))
             IN /\ row.total = Len(job[r].devices)
                /\ row.raw_sample.count = size
                /\ row.raw_sample.examples = [i \in 1..size |-> job[r].devices[i]]]_vars
  /\ [](\A i \in 1..Len(snapshots) : Len(snapshots[i].raw_sample.examples) <= SampleSize)

\* two runs over the same seven devices have left two rows, each with a
\* sample of five
C33_Witness ==
  /\ Len(snapshots) = 2
  /\ snapshots[1] = snapshots[2]
  /\ snapshots[1].total = 7
  /\ Len(snapshots[1].raw_sample.examples) = 5

\* C34: a run whose fetch fails on some page ends without writing a row, and
\* every row written is the row of a run that fetched every page of the
\* directory's answer.
C34_NoPartialSnapshot ==
  [][/\ \A r \in Runs :
          (job[r].pc = "fetch" /\ job'[r].pc = "failed") => snapshots' = snapshots
     /\ \A r \in Runs :
          (job[r].pc = "fetch" /\ job'[r].pc = "commit") =>
             job'[r].devices = Flatten(job[r].feed)
     /\ snapshots' # snapshots =>
          \E r \in Completing :
            /\ job[r].devices = Flatten(job[r].feed)
            /\ snapshots' = Append(snapshots, DeviceSnapshot(Flatten(job[r].feed)))]_vars

\* the fetch of the second page has failed after the first page was read, and
\* no row is stored
C34_Witness ==
  \E r \in Runs :
    /\ job[r].pc = "failed"
    /\ job[r].url = 2
    /\ Len(job[r].devices) = 3
    /\ snapshots = <<>>

\* C35: a step of the snapshot job leaves items, devices, pools, assignments
\* and history as they are, and a step of an engine request leaves the
\* snapshot rows as they are.
C35_DisjointState ==
  [][/\ (job' # job \/ snapshots' # snapshots) => db' = db
     /\ requests' # requests => snapshots' = snapshots]_vars

\* a snapshot row was written while a create_item request was between its two
\* commits
C35_Witness ==
  /\ pc["s1"] = "item_history"
  /\ Len(snapshots) > Len(snap["s1"].history)
  /\ \E r \in Runs : job[r].pc = "done"
\* C36: a call of the cached user list made less than the ttl after the last
\* directory fetch returns the cached list without calling the directory, and
\* a call made when the ttl has elapsed since that fetch calls the directory
\* and returns its list.
C36_TtlHonoured ==
  (users.last.called /\ users.last.had_fetched) =>
    IF users.last.at - users.last.fetched_before < Ttl
      THEN ~users.last.fetched
      ELSE users.last.fetched /\ users.last.result = users.directory

\* The 'allocate_license' history rows among `rows`
AllocateEntries(rows) ==
  {i \in DOMAIN rows : rows[i].action = "allocate_license"}

\* C38: one allocate_license call, whatever transient storage errors occur
\* inside its retry loop and however it ends, adds at most one to the pool's
\* allocated, at most one Assignment and at most one 'allocate_license'
\* history row.
C38_AtMostOneSeat ==
  \A s \in Sessions :
    (Finished(s, "allocate_license") /\ call[s].license_id \in DOMAIN snap[s].pools) =>
      LET before == snap[s]
          license_id == call[s].license_id
      IN /\ license_id \in DOMAIN pools
         /\ pools[license_id].allocated <= before.pools[license_id].allocated + 1
         /\ Cardinality(DOMAIN assignments) <= Cardinality(DOMAIN before.assignments) + 1
         /\ Cardinality(AllocateEntries(history))
              <= Cardinality(AllocateEntries(before.history)) + 1

\* C39: a successful update_inventory_item or create_assignment_for_item call
\* on a session writes its own changes only: an update leaves the assignments
\* as they were, an assign adds its one Assignment, so no Assignment refused
\* with 'Device already assigned' by an earlier call on the session is ever
\* stored.
C39_OnlyOwnChanges ==
  \A s \in Sessions :
    /\ (Finished(s, "update_inventory_item") /\ Succeeded(s)) =>
         assignments = snap[s].assignments
    /\ (Finished(s, "create_assignment_for_item") /\ Succeeded(s)) =>
         Cardinality(DOMAIN assignments) = Cardinality(DOMAIN snap[s].assignments) + 1

====
